---- MODULE Spec2Model ----
(***************************************************************************)
(* Metadata resolution of LV2 plugin packages: the per-plugin record       *)
(* (bundles.Plugin, lv2.Plugin), the package bundle (bundles.Bundle,       *)
(* bundles.PatchstorageBundle, lv2.Bundle), the multi-target validation    *)
(* (bundles.PatchstorageMultiTargetBundle) and the record building of      *)
(* uploader.py.                                                            *)
(*                                                                         *)
(* A Python str is a sequence of one-character strings, so that len(),     *)
(* lower(), split(), '%d' formatting, int() and the ordering of str are    *)
(* computed as Python computes them.  Python's None is NoneStr.            *)
(***************************************************************************)
EXTENDS Integers, Sequences, FiniteSets, TLC

VARIABLES
    fs,        \* per target: the package directory on disk
    graph,     \* per target: the triple store, as loaded from manifest.ttl
    bundles,   \* per target: the bundles.PatchstorageBundle object
    lv2,       \* per target: the lv2.Bundle object
    pc,        \* position of PatchstorageMultiTargetBundle.validate()
    steps,     \* the steps validate() has run in the current call, in order
    PS_TAGS_DEFAULT, \* uploader.PS_TAGS_DEFAULT
    result,    \* what the last call returned or raised
    loader,    \* the loading of the ttl files by one bundle's parse()
    batch,     \* the packages of one run of prepare_plugins_files
    push       \* one call of Patchstorage.push and the requests it has sent

vars == <<fs, graph, bundles, lv2, pc, steps, PS_TAGS_DEFAULT, result, loader, batch, push>>

(***************************************************************************)
(* Bounds of the model.                                                    *)
(***************************************************************************)
NumTargets == 2    \* build targets of one package
MaxPlugins == 3    \* plugin subjects in one manifest
MaxVer == 11       \* largest minorVersion / microVersion literal
MaxParses == 2     \* calls of parse() on one bundle object
MaxRefs == 2       \* rdfs:seeAlso triples of manifest.ttl
MaxDepth == 6      \* calls of _parse_ttl that have not returned
MaxTypes == 3      \* types one plugin subject declares
MaxBatch == 3      \* packages of one run of prepare_plugins_files

Targets == 1..NumTargets

(***************************************************************************)
(* Python values.                                                          *)
(***************************************************************************)
NoneStr == <<"<None>">>

\* the characters the model uses, in code point order
Ascii == <<" ", "#", "-", ".", "/",
           "0", "1", "2", "3", "4", "5", "6", "7", "8", "9", ":",
           "A", "B", "C", "D", "E", "F", "G", "H", "I", "J", "K", "L", "M",
           "N", "O", "P", "Q", "R", "S", "T", "U", "V", "W", "X", "Y", "Z",
           "a", "b", "c", "d", "e", "f", "g", "h", "i", "j", "k", "l", "m",
           "n", "o", "p", "q", "r", "s", "t", "u", "v", "w", "x", "y", "z">>

Ord(c) == CHOOSE i \in 1..Len(Ascii) : Ascii[i] = c

Digits == <<"0", "1", "2", "3", "4", "5", "6", "7", "8", "9">>

\* bool(value) of an Optional[str]: None and '' are falsy
Truthy(s) == s # NoneStr /\ s # <<>>

\* a < b on str: the first differing character decides, a proper prefix is smaller
StrLess(a, b) ==
    \E i \in 1..Len(b) :
        /\ \A j \in 1..(i - 1) : j <= Len(a) /\ a[j] = b[j]
        /\ \/ i = Len(a) + 1
           \/ i <= Len(a) /\ Ord(a[i]) < Ord(b[i])

\* max(list) on a non-empty list of str: the first of the greatest elements
RECURSIVE PyMax(_)
PyMax(l) ==
    IF Len(l) = 1 THEN l[1]
    ELSE LET m == PyMax(SubSeq(l, 1, Len(l) - 1))
         IN  IF StrLess(m, l[Len(l)]) THEN l[Len(l)] ELSE m

\* str.lower()
LowerChar(c) ==
    IF Ord(c) >= Ord("A") /\ Ord(c) <= Ord("Z")
    THEN Ascii[Ord(c) - Ord("A") + Ord("a")]
    ELSE c

Lower(s) == [i \in 1..Len(s) |-> LowerChar(s[i])]

\* '%d' % n, n >= 0
RECURSIVE FormatInt(_)
FormatInt(n) ==
    IF n < 10 THEN <<Digits[n + 1]>>
    ELSE FormatInt(n \div 10) \o <<Digits[(n % 10) + 1]>>

\* int(s) on a string of decimal digits
RECURSIVE ParseInt(_)
ParseInt(s) ==
    IF Len(s) = 0 THEN 0
    ELSE 10 * ParseInt(SubSeq(s, 1, Len(s) - 1))
         + ((CHOOSE d \in 1..10 : Digits[d] = s[Len(s)]) - 1)

\* s.split(sep) for a one-character separator
RECURSIVE SplitInto(_, _, _, _)
SplitInto(parts, cur, s, sep) ==
    IF Len(s) = 0 THEN Append(parts, cur)
    ELSE IF Head(s) = sep THEN SplitInto(Append(parts, cur), <<>>, Tail(s), sep)
    ELSE SplitInto(parts, Append(cur, Head(s)), Tail(s), sep)

Split(s, sep) == SplitInto(<<>>, <<>>, s, sep)

\* s.strip(): leading and trailing blanks removed
RECURSIVE Strip(_)
Strip(s) ==
    IF Len(s) = 0 THEN s
    ELSE IF s[1] = " " THEN Strip(Tail(s))
    ELSE IF s[Len(s)] = " " THEN Strip(SubSeq(s, 1, Len(s) - 1))
    ELSE s

\* s.startswith(p), s.endswith(p), p in s
StartsWith(s, p) == Len(p) <= Len(s) /\ SubSeq(s, 1, Len(p)) = p

EndsWith(s, p) == Len(p) <= Len(s) /\ SubSeq(s, Len(s) - Len(p) + 1, Len(s)) = p

Contains(s, p) == \E i \in 1..(Len(s) + 1) : StartsWith(SubSeq(s, i, Len(s)), p)

\* s.replace(old, new), old non-empty: every occurrence, left to right
RECURSIVE Replace(_, _, _)
Replace(s, old, new) ==
    IF Len(s) = 0 THEN s
    ELSE IF StartsWith(s, old)
         THEN new \o Replace(SubSeq(s, Len(old) + 1, Len(s)), old, new)
         ELSE <<s[1]>> \o Replace(Tail(s), old, new)

\* sep.join(parts)
RECURSIVE Join(_, _)
Join(parts, sep) ==
    IF Len(parts) = 0 THEN <<>>
    ELSE IF Len(parts) = 1 THEN parts[1]
    ELSE parts[1] \o sep \o Join(Tail(parts), sep)

\* the parts pathlib keeps, in order: empty parts and '.' are dropped, '..'
\* is kept
SelectParts(parts) == SelectSeq(parts, LAMBDA p : p # <<>> /\ p # <<".">>)

SeqToSet(l) == {l[i] : i \in 1..Len(l)}

\* F(v), with v evaluated once
Bind(v, F(_)) == CHOOSE y \in {F(x) : x \in {v}} : TRUE

(***************************************************************************)
(* String constants of the program and of the packages of the model.       *)
(***************************************************************************)
s_pkg == <<"p", "k", "g">>
s_manifest_ttl == <<"m", "a", "n", "i", "f", "e", "s", "t", ".", "t", "t", "l">>
s_so == <<".", "s", "o">>
s_amp_so == <<"a", "m", "p", ".", "s", "o">>
s_no_description == <<"N", "o", " ", "d", "e", "s", "c", "r", "i", "p", "t", "i", "o", "n", " ", "a", "v", "a", "i", "l", "a", "b", "l", "e", ".">>
s_Plugin_colon == <<"P", "l", "u", "g", "i", "n", ":", " ">>
s_Credit_colon == <<"C", "r", "e", "d", "i", "t", ":", " ">>
s_dots == <<".", ".", ".">>
s_ellipsis == <<"...">>
s_nl == <<"\n">>
s_donate_url == <<"h", "t", "t", "p", ":", "/", "/", "g", "i", "v", "e">>
s_a_ttl == <<"a", ".", "t", "t", "l">>
s_x_ttl == <<"x", ".", "t", "t", "l">>
s_modgui == <<"m", "o", "d", "g", "u", "i">>
s_res == <<"r", "e", "s">>
s_icon_png == <<"i", "c", "o", "n", ".", "p", "n", "g">>
s_shot_png == <<"s", "h", "o", "t", ".", "p", "n", "g">>
s_notes_txt == <<"n", "o", "t", "e", "s", ".", "t", "x", "t">>
s_MIT == <<"M", "I", "T">>
s_mit == <<"m", "i", "t">>
s_GPL == <<"G", "P", "L">>
s_Lo == <<"L", "o">>
s_Reverb == <<"R", "e", "v", "e", "r", "b">>
s_Amps == <<"A", "m", "p", "s">>
s_Delay == <<"D", "e", "l", "a", "y">>
s_Plugin == <<" ", "P", "l", "u", "g", "i", "n">>
s_Bundle == <<" ", "B", "u", "n", "d", "l", "e">>
s_http == <<"h", "t", "t", "p">>
s_file3 == <<"f", "i", "l", "e", ":", "/", "/", "/">>
s_file2 == <<"f", "i", "l", "e", ":", "/", "/">>
s_slash == <<"/">>
s_dot == <<".">>
s_src_url == <<"h", "t", "t", "p", ":", "/", "/", "s", "r", "c">>
s_lv2_plugin == <<"l", "v", "2", "-", "p", "l", "u", "g", "i", "n">>
s_Pitch_Shifter == <<"P", "i", "t", "c", "h", " ", "S", "h", "i", "f", "t", "e", "r">>
s_Spectral == <<"S", "p", "e", "c", "t", "r", "a", "l">>
s_Distortion == <<"D", "i", "s", "t", "o", "r", "t", "i", "o", "n">>
s_Waveshaper == <<"W", "a", "v", "e", "s", "h", "a", "p", "e", "r">>
ty_DistortionPlugin == <<"D", "i", "s", "t", "o", "r", "t", "i", "o", "n", "P", "l", "u", "g", "i", "n">>
ty_WaveshaperPlugin == <<"W", "a", "v", "e", "s", "h", "a", "p", "e", "r", "P", "l", "u", "g", "i", "n">>
ty_NoSuchPlugin == <<"N", "o", "S", "u", "c", "h", "P", "l", "u", "g", "i", "n">>
ns_lv2core == <<"h", "t", "t", "p", ":", "/", "/", "l", "v", "2", "p", "l", "u", "g", ".", "i", "n", "/", "n", "s", "/", "l", "v", "2", "c", "o", "r", "e", "#">>
ns_mod == <<"h", "t", "t", "p", ":", "/", "/", "m", "o", "d", "d", "e", "v", "i", "c", "e", "s", ".", "c", "o", "m", "/", "n", "s", "/", "m", "o", "d", "#">>
ns_modgui == <<"h", "t", "t", "p", ":", "/", "/", "m", "o", "d", "d", "e", "v", "i", "c", "e", "s", ".", "c", "o", "m", "/", "n", "s", "/", "m", "o", "d", "g", "u", "i", "#">>
ty_Plugin == <<"P", "l", "u", "g", "i", "n">>
ty_ReverbPlugin == <<"R", "e", "v", "e", "r", "b", "P", "l", "u", "g", "i", "n">>
ty_DelayPlugin == <<"D", "e", "l", "a", "y", "P", "l", "u", "g", "i", "n">>
ty_FilterPlugin == <<"F", "i", "l", "t", "e", "r", "P", "l", "u", "g", "i", "n">>

(***************************************************************************)
(* pathlib.Path: the sequence of the path's parts.  NonePath is None.      *)
(***************************************************************************)
NonePath == <<NoneStr>>

\* pathlib.Path(s).parts, the root aside
PathOf(s) == SelectParts(Split(s, "/"))

\* str(path)
PathStr(p) == s_slash \o Join(p, s_slash)

\* path.parts[-1], path.name
PathName(p) == p[Len(p)]

\* BaseParser._parse_path on a str (or None) of the graph
parse_path(path) ==
    IF path = NoneStr THEN NonePath
    ELSE IF StartsWith(path, s_http) THEN NonePath
    ELSE IF StartsWith(path, s_file3) THEN PathOf(Replace(path, s_file2, <<>>))
    ELSE NonePath

\* lv2.BaseParser._parse_path
Lv2_parse_path(path) ==
    IF path = NoneStr THEN NonePath
    ELSE IF StartsWith(path, s_http) THEN NonePath
    ELSE IF StartsWith(path, s_file3) THEN PathOf(Replace(path, s_file3, <<>>))
    ELSE PathOf(path)

(***************************************************************************)
(* The package directory of a target and the files in it.                  *)
(* fs[t] = [is_dir, dirs, files]: dirs and files are paths relative to the *)
(* bundle's path.                                                          *)
(***************************************************************************)
TargetDir(t) == <<"t", Digits[t + 1]>>

\* Bundle.path of target t: <target dir>/<package name>
BundlePath(t) == <<TargetDir(t), s_pkg>>

\* Bundle.package_name = path.parts[-1]
package_name(t) == PathName(BundlePath(t))

\* Bundle.manifest_path = path / "manifest.ttl"
manifest_path(t) == BundlePath(t) \o <<s_manifest_ttl>>

\* the path the system follows for p: a part '..' leaves the directory that
\* the parts before it name (every directory named is one that exists)
RECURSIVE ResolveInto(_, _)
ResolveInto(acc, p) ==
    IF Len(p) = 0 THEN acc
    ELSE IF Head(p) = <<".", ".">>
         THEN ResolveInto(SubSeq(acc, 1, Len(acc) - 1), Tail(p))
         ELSE ResolveInto(Append(acc, Head(p)), Tail(p))

Resolve(p) == ResolveInto(<<>>, p)

\* the file of the bundle of target t that the path p names, relative to the
\* bundle's path
Rel(t, p) == SubSeq(Resolve(p), Len(BundlePath(t)) + 1, Len(Resolve(p)))

\* path.exists() as seen while target t is processed
Exists(t, p) ==
    /\ fs[t].is_dir
    /\ Len(Resolve(p)) >= Len(BundlePath(t))
    /\ SubSeq(Resolve(p), 1, Len(BundlePath(t))) = BundlePath(t)
    /\ Rel(t, p) = <<>> \/ Rel(t, p) \in fs[t].files \/ Rel(t, p) \in fs[t].dirs

\* path.glob('**/*'): every file and directory below the bundle's path
GlobAll(t) == IF fs[t].is_dir THEN fs[t].files \cup fs[t].dirs ELSE {}

\* path.glob('*.so'): the entries of the bundle's directory that end with .so
GlobSo(t) ==
    IF fs[t].is_dir
    THEN {p \in fs[t].files \cup fs[t].dirs : Len(p) = 1 /\ EndsWith(p[1], s_so)}
    ELSE {}

(***************************************************************************)
(* An outcome of a call: a returned value or a raised exception.           *)
(***************************************************************************)
Ok(v) == [ok |-> TRUE, val |-> v]

Raise(exc, msg, args) == [ok |-> FALSE, exc |-> exc, msg |-> msg, args |-> args]

(***************************************************************************)
(* The triple store of a target.  graph[t].plugins lists, in the order the *)
(* store yields them, the subjects of type lv2core.Plugin, each with the   *)
(* objects of its triples: a literal is a str, an absent triple NoneStr.   *)
(* developer, maintainer, gui_screenshot and gui_brand are the foaf.name,  *)
(* modgui.screenshot and modgui.brand of the node the subject links to.    *)
(* types are the objects of rdfsyntax.type, URIs.                          *)
(***************************************************************************)
CATEGORY_MAP ==
    <<"M", "I", "D", "I", "P", "l", "u", "g", "i", "n">> :>
        <<<<"M", "I", "D", "I">>>> @@
    <<"D", "i", "s", "t", "o", "r", "t", "i", "o", "n", "P", "l", "u", "g", "i", "n">> :>
        <<<<"D", "i", "s", "t", "o", "r", "t", "i", "o", "n">>>> @@
    <<"W", "a", "v", "e", "s", "h", "a", "p", "e", "r", "P", "l", "u", "g", "i", "n">> :>
        <<<<"D", "i", "s", "t", "o", "r", "t", "i", "o", "n">>, <<"W", "a", "v", "e", "s", "h", "a", "p", "e", "r">>>> @@
    <<"D", "y", "n", "a", "m", "i", "c", "s", "P", "l", "u", "g", "i", "n">> :>
        <<<<"D", "y", "n", "a", "m", "i", "c", "s">>>> @@
    <<"S", "i", "m", "u", "l", "a", "t", "o", "r", "P", "l", "u", "g", "i", "n">> :>
        <<<<"S", "i", "m", "u", "l", "a", "t", "o", "r">>>> @@
    <<"A", "m", "p", "l", "i", "f", "i", "e", "r", "P", "l", "u", "g", "i", "n">> :>
        <<<<"D", "y", "n", "a", "m", "i", "c", "s">>, <<"A", "m", "p", "l", "i", "f", "i", "e", "r">>>> @@
    <<"C", "o", "m", "p", "r", "e", "s", "s", "o", "r", "P", "l", "u", "g", "i", "n">> :>
        <<<<"D", "y", "n", "a", "m", "i", "c", "s">>, <<"C", "o", "m", "p", "r", "e", "s", "s", "o", "r">>>> @@
    <<"C", "o", "n", "t", "r", "o", "l", "V", "o", "l", "t", "a", "g", "e", "P", "l", "u", "g", "i", "n">> :>
        <<<<"C", "o", "n", "t", "r", "o", "l", "V", "o", "l", "t", "a", "g", "e">>>> @@
    <<"E", "x", "p", "a", "n", "d", "e", "r", "P", "l", "u", "g", "i", "n">> :>
        <<<<"D", "y", "n", "a", "m", "i", "c", "s">>, <<"E", "x", "p", "a", "n", "d", "e", "r">>>> @@
    <<"G", "a", "t", "e", "P", "l", "u", "g", "i", "n">> :>
        <<<<"D", "y", "n", "a", "m", "i", "c", "s">>, <<"G", "a", "t", "e">>>> @@
    <<"L", "i", "m", "i", "t", "e", "r", "P", "l", "u", "g", "i", "n">> :>
        <<<<"D", "y", "n", "a", "m", "i", "c", "s">>, <<"L", "i", "m", "i", "t", "e", "r">>>> @@
    <<"F", "i", "l", "t", "e", "r", "P", "l", "u", "g", "i", "n">> :>
        <<<<"F", "i", "l", "t", "e", "r">>>> @@
    <<"A", "l", "l", "p", "a", "s", "s", "P", "l", "u", "g", "i", "n">> :>
        <<<<"F", "i", "l", "t", "e", "r">>, <<"A", "l", "l", "p", "a", "s", "s">>>> @@
    <<"B", "a", "n", "d", "p", "a", "s", "s", "P", "l", "u", "g", "i", "n">> :>
        <<<<"F", "i", "l", "t", "e", "r">>, <<"B", "a", "n", "d", "p", "a", "s", "s">>>> @@
    <<"C", "o", "m", "b", "P", "l", "u", "g", "i", "n">> :>
        <<<<"F", "i", "l", "t", "e", "r">>, <<"C", "o", "m", "b">>>> @@
    <<"E", "Q", "P", "l", "u", "g", "i", "n">> :>
        <<<<"F", "i", "l", "t", "e", "r">>, <<"E", "q", "u", "a", "l", "i", "s", "e", "r">>>> @@
    <<"M", "u", "l", "t", "i", "E", "Q", "P", "l", "u", "g", "i", "n">> :>
        <<<<"F", "i", "l", "t", "e", "r">>, <<"E", "q", "u", "a", "l", "i", "s", "e", "r">>, <<"M", "u", "l", "t", "i", "b", "a", "n", "d">>>> @@
    <<"P", "a", "r", "a", "E", "Q", "P", "l", "u", "g", "i", "n">> :>
        <<<<"F", "i", "l", "t", "e", "r">>, <<"E", "q", "u", "a", "l", "i", "s", "e", "r">>, <<"P", "a", "r", "a", "m", "e", "t", "r", "i", "c">>>> @@
    <<"H", "i", "g", "h", "p", "a", "s", "s", "P", "l", "u", "g", "i", "n">> :>
        <<<<"F", "i", "l", "t", "e", "r">>, <<"H", "i", "g", "h", "p", "a", "s", "s">>>> @@
    <<"L", "o", "w", "p", "a", "s", "s", "P", "l", "u", "g", "i", "n">> :>
        <<<<"F", "i", "l", "t", "e", "r">>, <<"L", "o", "w", "p", "a", "s", "s">>>> @@
    <<"G", "e", "n", "e", "r", "a", "t", "o", "r", "P", "l", "u", "g", "i", "n">> :>
        <<<<"G", "e", "n", "e", "r", "a", "t", "o", "r">>>> @@
    <<"C", "o", "n", "s", "t", "a", "n", "t", "P", "l", "u", "g", "i", "n">> :>
        <<<<"G", "e", "n", "e", "r", "a", "t", "o", "r">>, <<"C", "o", "n", "s", "t", "a", "n", "t">>>> @@
    <<"I", "n", "s", "t", "r", "u", "m", "e", "n", "t", "P", "l", "u", "g", "i", "n">> :>
        <<<<"G", "e", "n", "e", "r", "a", "t", "o", "r">>, <<"I", "n", "s", "t", "r", "u", "m", "e", "n", "t">>>> @@
    <<"O", "s", "c", "i", "l", "l", "a", "t", "o", "r", "P", "l", "u", "g", "i", "n">> :>
        <<<<"G", "e", "n", "e", "r", "a", "t", "o", "r">>, <<"O", "s", "c", "i", "l", "l", "a", "t", "o", "r">>>> @@
    <<"M", "o", "d", "u", "l", "a", "t", "o", "r", "P", "l", "u", "g", "i", "n">> :>
        <<<<"M", "o", "d", "u", "l", "a", "t", "o", "r">>>> @@
    <<"C", "h", "o", "r", "u", "s", "P", "l", "u", "g", "i", "n">> :>
        <<<<"M", "o", "d", "u", "l", "a", "t", "o", "r">>, <<"C", "h", "o", "r", "u", "s">>>> @@
    <<"F", "l", "a", "n", "g", "e", "r", "P", "l", "u", "g", "i", "n">> :>
        <<<<"M", "o", "d", "u", "l", "a", "t", "o", "r">>, <<"F", "l", "a", "n", "g", "e", "r">>>> @@
    <<"P", "h", "a", "s", "e", "r", "P", "l", "u", "g", "i", "n">> :>
        <<<<"M", "o", "d", "u", "l", "a", "t", "o", "r">>, <<"P", "h", "a", "s", "e", "r">>>> @@
    <<"R", "e", "v", "e", "r", "b", "P", "l", "u", "g", "i", "n">> :>
        <<<<"R", "e", "v", "e", "r", "b">>>> @@
    <<"S", "p", "a", "t", "i", "a", "l", "P", "l", "u", "g", "i", "n">> :>
        <<<<"S", "p", "a", "t", "i", "a", "l">>>> @@
    <<"S", "p", "e", "c", "t", "r", "a", "l", "P", "l", "u", "g", "i", "n">> :>
        <<<<"S", "p", "e", "c", "t", "r", "a", "l">>>> @@
    <<"P", "i", "t", "c", "h", "P", "l", "u", "g", "i", "n">> :>
        <<<<"P", "i", "t", "c", "h", " ", "S", "h", "i", "f", "t", "e", "r">>, <<"S", "p", "e", "c", "t", "r", "a", "l">>>> @@
    <<"D", "e", "l", "a", "y", "P", "l", "u", "g", "i", "n">> :>
        <<<<"D", "e", "l", "a", "y">>>> @@
    <<"U", "t", "i", "l", "i", "t", "y", "P", "l", "u", "g", "i", "n">> :>
        <<<<"U", "t", "i", "l", "i", "t", "y">>>> @@
    <<"A", "n", "a", "l", "y", "s", "e", "r", "P", "l", "u", "g", "i", "n">> :>
        <<<<"U", "t", "i", "l", "i", "t", "y">>, <<"A", "n", "a", "l", "y", "s", "e", "r">>>> @@
    <<"C", "o", "n", "v", "e", "r", "t", "e", "r", "P", "l", "u", "g", "i", "n">> :>
        <<<<"U", "t", "i", "l", "i", "t", "y">>, <<"C", "o", "n", "v", "e", "r", "t", "e", "r">>>> @@
    <<"F", "u", "n", "c", "t", "i", "o", "n", "P", "l", "u", "g", "i", "n">> :>
        <<<<"U", "t", "i", "l", "i", "t", "y">>, <<"F", "u", "n", "c", "t", "i", "o", "n">>>> @@
    <<"M", "i", "x", "e", "r", "P", "l", "u", "g", "i", "n">> :>
        <<<<"U", "t", "i", "l", "i", "t", "y">>, <<"M", "i", "x", "e", "r">>>>

\* Plugin._get_field: the first object of (subject, predicate, *), stripped
get_field(g, i, predicate) ==
    IF g.plugins[i][predicate] = NoneStr THEN NoneStr
    ELSE Strip(g.plugins[i][predicate])

\* Plugin._get_nested_field: the triples (*, predicate, node) of ANY subject
\* are walked and the first node that has the child gives the value
get_nested_field(g, predicate) ==
    IF \A j \in 1..Len(g.plugins) : g.plugins[j][predicate] = NoneStr
    THEN NoneStr
    ELSE LET k == CHOOSE j \in 1..Len(g.plugins) :
                      /\ g.plugins[j][predicate] # NoneStr
                      /\ \A h \in 1..(j - 1) : g.plugins[h][predicate] = NoneStr
         IN  Strip(g.plugins[k][predicate])

\* Plugin._get_type_field: the keys of the dict, the types of the subject that
\* start with the namespace, cut behind it
get_type_field(g, i, namespace) ==
    {SubSeq(url, Len(namespace) + 1, Len(url)) :
        url \in {x \in SeqToSet(g.plugins[i].types) : StartsWith(x, namespace)}}

\* Plugin._get_brand
get_brand(g, i) ==
    IF Truthy(get_field(g, i, "brand")) THEN get_field(g, i, "brand")
    ELSE IF Truthy(get_nested_field(g, "developer"))
         THEN get_nested_field(g, "developer")
    ELSE IF Truthy(get_nested_field(g, "maintainer"))
         THEN get_nested_field(g, "maintainer")
    ELSE IF Truthy(get_nested_field(g, "gui_brand"))
         THEN get_nested_field(g, "gui_brand")
    ELSE NoneStr

\* Plugin._get_license: Ok(str or None), or NotImplementedError
get_license(g, t, i) ==
    LET value == get_field(g, i, "license")
        path == parse_path(value)
    IN  IF Truthy(value) /\ Contains(value, s_file3) /\ path # NonePath
        THEN IF Exists(t, path)
             THEN Raise("NotImplementedError", "License file not supported", <<>>)
             ELSE Ok(PathName(path))
        ELSE Ok(value)

\* Plugin._get_version
get_version(g, i) ==
    LET minor == get_field(g, i, "minor")
        micro == get_field(g, i, "micro")
        minor_version == IF Truthy(minor) THEN ParseInt(minor) ELSE 0
        micro_version == IF Truthy(micro) THEN ParseInt(micro) ELSE 0
    IN  FormatInt(minor_version) \o s_dot \o FormatInt(micro_version)

\* a stability that is "testing" only when both components are odd
get_stability_both_odd(version) ==
    LET parts == Split(version, ".")
        minor == ParseInt(parts[1])
        micro == ParseInt(parts[2])
    IN  IF minor = 0 THEN "experimental"
        ELSE IF minor % 2 # 0 /\ micro % 2 # 0 THEN "testing"
        ELSE "stable"

\* Plugin._get_stability
get_stability(version) ==
    LET parts == Split(version, ".")
        minor == ParseInt(parts[1])
        micro == ParseInt(parts[2])
    IN  IF minor = 0 THEN "experimental"
        ELSE IF minor % 2 # 0 \/ micro % 2 # 0 THEN "testing"
        ELSE "stable"

\* a category resolution that stops at the first declared type of the map
get_category_first(g, i) ==
    LET types == g.plugins[i].types
        local(url) == IF StartsWith(url, ns_lv2core)
                      THEN SubSeq(url, Len(ns_lv2core) + 1, Len(url))
                      ELSE IF StartsWith(url, ns_mod)
                      THEN SubSeq(url, Len(ns_mod) + 1, Len(url))
                      ELSE <<>>
        known == {k \in 1..Len(types) : local(types[k]) \in DOMAIN CATEGORY_MAP}
    IN  IF known = {} THEN {}
        ELSE SeqToSet(CATEGORY_MAP[local(types[CHOOSE k \in known :
                                                   \A h \in known : k <= h])])

\* Plugin._get_category: list(set(...)), a list without a defined order
get_category(g, i) ==
    LET data == get_type_field(g, i, ns_lv2core) \cup get_type_field(g, i, ns_mod)
    IN  UNION {SeqToSet(CATEGORY_MAP[key]) : key \in data \cap DOMAIN CATEGORY_MAP}

\* Plugin._get_author
get_author(g) ==
    IF Truthy(get_nested_field(g, "developer"))
    THEN get_nested_field(g, "developer")
    ELSE get_nested_field(g, "maintainer")

\* Plugin._get_screenshot: Ok(str(path)), or PluginFieldMissing
get_screenshot(g, t) ==
    LET path == parse_path(get_nested_field(g, "gui_screenshot"))
    IN  IF path = NonePath \/ ~Exists(t, path)
        THEN Raise("PluginFieldMissing", "screenshot", <<package_name(t)>>)
        ELSE Ok(PathStr(path))

\* Plugin._parse_data: the fields are computed in the order of the dict
\* display, so the first one that raises decides the exception
parse_data(g, t, i) ==
    IF ~Truthy(get_field(g, i, "name"))
    THEN Raise("PluginFieldMissing", "name", <<package_name(t)>>)
    ELSE IF ~get_screenshot(g, t).ok THEN get_screenshot(g, t)
    ELSE IF ~get_license(g, t, i).ok THEN get_license(g, t, i)
    ELSE Ok([uri |-> g.plugins[i].uri,
             name |-> get_field(g, i, "name"),
             label |-> get_field(g, i, "label"),
             brand |-> get_brand(g, i),
             screenshot |-> get_screenshot(g, t).val,
             license |-> get_license(g, t, i).val,
             comment |-> get_field(g, i, "comment"),
             version |-> get_version(g, i),
             stability |-> get_stability(get_version(g, i)),
             category |-> get_category(g, i),
             author |-> get_author(g)])

(***************************************************************************)
(* A bundles.Plugin object: its subject (the index in graph[t].plugins)    *)
(* and its _data; computed counts the runs of _parse_data on the object.   *)
(***************************************************************************)
NoPluginData == [none |-> TRUE]

NewPlugin(i) == [subject |-> i, data |-> NoPluginData, computed |-> 0]

\* Plugin.parse: [out: the outcome, plugin: the object after the call]
Plugin_parse(pl, g, t) ==
    IF pl.data = NoPluginData
    THEN LET out == parse_data(g, t, pl.subject)
         IN  [out |-> out,
              plugin |-> [pl EXCEPT !.data = IF out.ok THEN out.val ELSE @,
                                    !.computed = @ + 1]]
    ELSE [out |-> Ok(pl.data), plugin |-> pl]

\* Plugin.get_title (asserts the plugin is parsed)
Plugin_get_title(pl, t) ==
    IF Truthy(pl.data.label) THEN Ok(pl.data.label)
    ELSE IF Truthy(pl.data.name) THEN Ok(pl.data.name)
    ELSE Raise("PluginFieldMissing", "title", <<package_name(t)>>)

\* Plugin.get_license
Plugin_get_license(pl) == pl.data.license

StateWorkInProgress == 150
StateReady == 151

\* Plugin.get_state
Plugin_get_state(pl) ==
    IF pl.data.stability = "experimental" THEN StateWorkInProgress ELSE StateReady

\* Plugin.get_revision
Plugin_get_revision(pl) == pl.data.version

(***************************************************************************)
(* A bundles.Bundle / bundles.PatchstorageBundle object: plugins is the    *)
(* list self.plugins of Plugin objects, data is self._data; parses counts  *)
(* the calls of parse() on the object.  The store of the object holds      *)
(* graph[t] once _parse_ttl has loaded manifest.ttl, and parse() reads it  *)
(* only after that.                                                        *)
(***************************************************************************)
NoData == [none |-> TRUE]

NewBundle == [plugins |-> <<>>, data |-> NoData, parses |-> 0]

NotParsed(t) ==
    Raise("BundleBadContents", "not parsed. Run parse() first", <<package_name(t)>>)

\* Bundle.get_plugin_count, behind raise_if_not_parsed
get_plugin_count(b) == Len(b.plugins)

\* Bundle.validate_files
validate_files(t) ==
    IF ~fs[t].is_dir
    THEN Raise("BundleBadContents", "Invalid folder name", <<package_name(t)>>)
    ELSE IF ~Exists(t, manifest_path(t))
    THEN Raise("BundleBadContents", "No manifest.ttl in folder", <<package_name(t)>>)
    ELSE IF GlobSo(t) = {}
    THEN Raise("BundleBadContents", "No .so file in folder", <<package_name(t)>>)
    ELSE Ok(NoneStr)

\* the smallest element of a non-empty set of numbers
Min(S) == CHOOSE x \in S : \A y \in S : x <= y

\* a parse() that builds its data from all of self.plugins, the Plugin
\* objects of earlier calls included
Bundle_parse_all_plugins(b, t, res) ==
    LET plugins1 == b.plugins \o [i \in 1..Len(res) |-> res[i].plugin]
        bundle_data == [package_name |-> package_name(t),
                        plugins |-> [i \in 1..Len(plugins1) |-> plugins1[i].data]]
        b0 == [b EXCEPT !.parses = @ + 1]
    IN  IF ~validate_files(t).ok
        THEN [out |-> validate_files(t), bundle |-> b0]
        ELSE IF Len(plugins1) = 0
        THEN [out |-> Raise("BundleBadContents", "No plugin found in folder",
                            <<package_name(t)>>),
              bundle |-> b0]
        ELSE [out |-> Ok(bundle_data),
              bundle |-> [b0 EXCEPT !.plugins = plugins1, !.data = bundle_data]]

\* a parse() that assigns self._data before it parses the plugins, as
\* lv2.Bundle.parse does
Bundle_parse_plugins_early(b, t, res) ==
    LET n == Len(res)
        bad == {i \in 1..n : ~res[i].out.ok}
        k == IF bad = {} THEN n + 1 ELSE Min(bad)
        plugins1 == b.plugins \o [i \in 1..(k - 1) |-> res[i].plugin]
        bundle_data == [package_name |-> package_name(t),
                        plugins |-> [i \in 1..(k - 1) |-> res[i].out.val]]
        b0 == [b EXCEPT !.parses = @ + 1]
        b1 == [b0 EXCEPT !.plugins = plugins1, !.data = bundle_data]
    IN  IF ~validate_files(t).ok
        THEN [out |-> validate_files(t), bundle |-> b0]
        ELSE IF bad # {} THEN [out |-> res[k].out, bundle |-> b1]
        ELSE IF Len(plugins1) = 0
        THEN [out |-> Raise("BundleBadContents", "No plugin found in folder",
                            <<package_name(t)>>),
              bundle |-> b1]
        ELSE [out |-> Ok(bundle_data), bundle |-> b1]

\* Bundle.parse, given res[i] = Plugin.parse of a new Plugin of subject i:
\* [out: the outcome, bundle: the object after the call]
Bundle_parse_plugins(b, t, res) ==
    LET n == Len(res)
        bad == {i \in 1..n : ~res[i].out.ok}
        k == IF bad = {} THEN n + 1 ELSE Min(bad)
        plugins1 == b.plugins \o [i \in 1..(k - 1) |-> res[i].plugin]
        bundle_data == [package_name |-> package_name(t),
                        plugins |-> [i \in 1..(k - 1) |-> res[i].out.val]]
        b0 == [b EXCEPT !.parses = @ + 1]
    IN  IF ~validate_files(t).ok
        THEN [out |-> validate_files(t), bundle |-> b0]
        ELSE IF bad # {}
        THEN [out |-> res[k].out, bundle |-> [b0 EXCEPT !.plugins = plugins1]]
        ELSE IF Len(plugins1) = 0
        THEN [out |-> Raise("BundleBadContents", "No plugin found in folder",
                            <<package_name(t)>>),
              bundle |-> b0]
        ELSE [out |-> Ok(bundle_data),
              bundle |-> [b0 EXCEPT !.plugins = plugins1, !.data = bundle_data]]

\* Bundle.parse
Bundle_parse(b, t) ==
    Bind([i \in 1..Len(graph[t].plugins) |->
             Plugin_parse(NewPlugin(i), graph[t], t)],
         LAMBDA res : Bundle_parse_plugins(b, t, res))

\* the title below this length gets " Plugin" appended
ShortTitle == 5

\* PatchstorageBundle.get_title
get_title(b, t) ==
    IF b.data = NoData THEN NotParsed(t)
    ELSE IF get_plugin_count(b) = 1
    THEN LET plugin_title == Plugin_get_title(b.plugins[1], t)
         IN  IF ~plugin_title.ok THEN plugin_title
             ELSE IF Len(plugin_title.val) < ShortTitle
             THEN Ok(plugin_title.val \o s_Plugin)
             ELSE plugin_title
    ELSE Ok(package_name(t) \o s_Bundle)

(***************************************************************************)
(* The tables of the caller.  A licenses map gives, per license ID, the    *)
(* aliases of the license; NoMap is licenses_map = None.  The overwrites   *)
(* of a package are a dict that may hold 'license'.                        *)
(***************************************************************************)
NoMap == <<>>

LicensesMap == <<[id |-> <<"7", "5">>, values |-> <<s_MIT>>],
                 [id |-> <<"7", "6">>, values |-> <<s_GPL>>]>>

\* a table whose entries list one license in two letter cases
LicensesMapCase == <<[id |-> <<"7", "5">>, values |-> <<s_MIT>>],
                     [id |-> <<"7", "6">>, values |-> <<s_GPL, s_mit>>]>>

LicenseTables == {NoMap, LicensesMap, LicensesMapCase}

Overwrites == {[license |-> NoneStr], [license |-> s_GPL]}

\* the dict "inverted" built from a table {id: [alias, ...]} given as a list of
\* [id, values]: the value of Key(alias), where a later entry replaces an
\* earlier one; NoneStr if no alias gives the key
InvertedGet(table, Key(_), key) ==
    LET hits == {e \in 1..Len(table) :
                    \E v \in 1..Len(table[e].values) : Key(table[e].values[v]) = key}
    IN  IF hits = {} THEN NoneStr
        ELSE table[CHOOSE e \in hits : \A o \in hits : o <= e].id

\* an inverted table whose keys are the aliases as they are written
InvertedAsWritten(licenses_map, key) ==
    IF InvertedGet(licenses_map, LAMBDA v : v, key) = NoneStr THEN NoneStr
    ELSE Lower(InvertedGet(licenses_map, LAMBDA v : v, key))

\* inverted[bundle_license] of get_license_id: inverted[value.lower()] = lic_id.lower()
Inverted(licenses_map, key) ==
    IF InvertedGet(licenses_map, Lower, key) = NoneStr THEN NoneStr
    ELSE Lower(InvertedGet(licenses_map, Lower, key))

\* PatchstorageBundle.get_license_id; 'license' in overwrites is modelled by
\* overwrites.license # NoneStr
get_license_id(b, t, licenses_map, overwrites) ==
    LET lic == [i \in 1..Len(b.plugins) |-> Plugin_get_license(b.plugins[i])]
        bad == {i \in 2..Len(lic) : lic[i - 1] # NoneStr /\ lic[i - 1] # lic[i]}
        last == IF Len(lic) = 0 THEN NoneStr ELSE lic[Len(lic)]
        bundle_license == IF last = NoneStr THEN overwrites.license ELSE last
    IN  IF b.data = NoData THEN NotParsed(t)
        ELSE IF bad # {}
        THEN Raise("BundleBadContents", "License mismatch",
                   <<package_name(t), lic[Min(bad) - 1], lic[Min(bad)]>>)
        ELSE IF bundle_license = NoneStr
        THEN Raise("BundleBadContents", "No license found", <<package_name(t)>>)
        ELSE IF licenses_map = NoMap THEN Ok(Lower(bundle_license))
        ELSE IF Inverted(licenses_map, Lower(bundle_license)) = NoneStr
        THEN Raise("BundleBadContents", "Missing license ID",
                   <<Lower(bundle_license)>>)
        ELSE Ok(ParseInt(Inverted(licenses_map, Lower(bundle_license))))

\* PatchstorageBundle.get_state_id
get_state_id(b, t) ==
    LET all_states == [i \in 1..Len(b.plugins) |-> Plugin_get_state(b.plugins[i])]
    IN  IF b.data = NoData THEN NotParsed(t)
        ELSE IF StateWorkInProgress \in SeqToSet(all_states)
        THEN Ok(StateWorkInProgress)
        ELSE Ok(StateReady)

\* PatchstorageBundle.get_revision
get_revision(b, t) ==
    IF b.data = NoData THEN NotParsed(t)
    ELSE Ok(PyMax([i \in 1..Len(b.plugins) |-> Plugin_get_revision(b.plugins[i])]))

\* list(set(...)): the order of the list is not defined; the model lists the
\* elements in code point order
RECURSIVE ListOf(_)
ListOf(S) ==
    IF S = {} THEN <<>>
    ELSE LET least == CHOOSE x \in S : \A y \in S : ~StrLess(y, x)
         IN  <<least>> \o ListOf(S \ {least})

\* Plugin.get_categories
Plugin_get_categories(pl) == ListOf(pl.data.category)

\* the concatenation of the lists of a list
RECURSIVE Concat(_)
Concat(lists) ==
    IF lists = <<>> THEN <<>> ELSE Head(lists) \o Concat(Tail(lists))

\* the category tables of the caller: per category ID, the tags of the category
CategoriesMap == <<[id |-> <<"9", "1">>, values |-> <<s_Reverb>>],
                   [id |-> <<"9", "2">>, values |-> <<s_Delay, s_Distortion>>],
                   [id |-> <<"9", "5">>, values |-> <<s_Delay>>]>>

\* the overwrites of a package that may hold 'categories'
CategoryOverwrites == {[categories |-> NoneStr], [categories |-> <<s_Delay>>]}

\* inverted[cat] of get_category_ids: inverted[value] = cat_id
CategoryInverted(categories, key) == InvertedGet(categories, LAMBDA v : v, key)

\* PatchstorageBundle.get_category_ids; 'categories' in overwrites is modelled
\* by overwrites.categories # NoneStr
get_category_ids(b, t, categories, overwrites) ==
    LET cats == IF overwrites.categories # NoneStr
                THEN overwrites.categories
                ELSE Concat([i \in 1..Len(b.plugins) |->
                                Plugin_get_categories(b.plugins[i])])
        missing == {i \in 1..Len(cats) :
                       CategoryInverted(categories, cats[i]) = NoneStr}
    IN  IF b.data = NoData THEN NotParsed(t)
        ELSE IF Len(cats) = 0
        THEN Raise("BundleBadContents", "No categories found", <<package_name(t)>>)
        ELSE IF missing # {}
        THEN Raise("BundleBadContents", "Missing category ID", <<cats[Min(missing)]>>)
        ELSE Ok([i \in 1..Len(cats) |->
                    ParseInt(CategoryInverted(categories, cats[i]))])

(***************************************************************************)
(* The other operations of PatchstorageBundle that read the parsed data.   *)
(* The overwrites of a package are [license, categories, tags,             *)
(* source_code_url, donate_url], NoneStr for a key the dict does not hold. *)
(***************************************************************************)
\* the data property of Bundle
Bundle_data(b, t) == IF b.data = NoData THEN NotParsed(t) ELSE Ok(b.data)

\* PatchstorageBundle.get_uids
get_uids(b, t) ==
    IF b.data = NoData THEN NotParsed(t)
    ELSE Ok([i \in 1..Len(b.plugins) |-> b.plugins[i].data.uri])

\* Plugin.get_comment; s_ellipsis stands for the one-character ellipsis
Plugin_get_comment(pl) ==
    IF pl.data.comment \in {s_ellipsis, s_dots} \/ ~Truthy(pl.data.comment)
    THEN s_no_description
    ELSE pl.data.comment

\* s.strip() of a text: blanks and line ends removed at both ends
RECURSIVE StripText(_)
StripText(s) ==
    IF Len(s) = 0 THEN s
    ELSE IF s[1] \in {" ", "\n"} THEN StripText(Tail(s))
    ELSE IF s[Len(s)] \in {" ", "\n"} THEN StripText(SubSeq(s, 1, Len(s) - 1))
    ELSE s

\* what get_comment adds to text for one plugin
CommentOf(b, t, pl) ==
    (IF get_plugin_count(b) > 1
     THEN s_Plugin_colon \o Plugin_get_title(pl, t).val \o s_nl \o s_nl ELSE <<>>)
    \o Plugin_get_comment(pl) \o s_nl \o s_nl
    \o (IF Truthy(pl.data.author)
        THEN s_Credit_colon \o pl.data.author \o s_nl \o s_nl \o s_nl ELSE <<>>)

\* PatchstorageBundle.get_comment
get_comment(b, t) ==
    IF b.data = NoData THEN NotParsed(t)
    ELSE Ok(StripText(Concat([i \in 1..Len(b.plugins) |->
                                 CommentOf(b, t, b.plugins[i])])))

\* cat.lower().replace(' ', '-').strip()
BundleTagOf(cat) == Strip(Replace(Lower(cat), <<" ">>, <<"-">>))

\* PatchstorageBundle.get_tags: list(set(tags)), held as the set; default_tags
\* is a list of tags, the empty list standing for None too (nothing is
\* added for either), and every plugin of a bundle has a screenshot
Bundle_get_tags(b, t, default_tags, overwrites) ==
    LET own == IF overwrites.tags # NoneStr THEN SeqToSet(overwrites.tags)
               ELSE {BundleTagOf(cat) : cat \in
                        UNION {pl.data.category : pl \in SeqToSet(b.plugins)}}
        more == SeqToSet(default_tags)
    IN  IF b.data = NoData THEN NotParsed(t)
        ELSE Ok({Lower(tag) : tag \in own \cup more} \cup {s_modgui})

\* PatchstorageBundle.get_source_code_url
get_source_code_url(b, t, overwrites) ==
    IF b.data = NoData THEN NotParsed(t)
    ELSE IF overwrites.source_code_url = NoneStr
    THEN Raise("BundleBadContents", "Missing source_code_url", <<package_name(t)>>)
    ELSE Ok(overwrites.source_code_url)

\* PatchstorageBundle.get_donate_url
get_donate_url(b, t, overwrites) ==
    IF b.data = NoData THEN NotParsed(t)
    ELSE IF overwrites.donate_url = NoneStr
    THEN Raise("BundleBadContents", "Missing donate_url", <<package_name(t)>>)
    ELSE Ok(overwrites.donate_url)

\* the values of the dict display of get_patchstorage_data, in its order
PatchstorageFields(b, t, licenses_map, categories_map, overwrites, default_tags) ==
    <<get_uids(b, t),
      get_state_id(b, t),
      get_category_ids(b, t, categories_map, overwrites),
      get_title(b, t),
      get_comment(b, t),
      Bundle_get_tags(b, t, default_tags, overwrites),
      get_revision(b, t),
      get_license_id(b, t, licenses_map, overwrites),
      get_source_code_url(b, t, overwrites),
      get_donate_url(b, t, overwrites)>>

\* the dict of get_patchstorage_data, or what the first failing call raises
PatchstorageRecord(platform_id, f) ==
    IF \E i \in 1..Len(f) : ~f[i].ok
    THEN f[Min({i \in 1..Len(f) : ~f[i].ok})]
    ELSE Ok([uids |-> f[1].val, state |-> f[2].val, platform |-> platform_id,
             categories |-> f[3].val, title |-> f[4].val, content |-> f[5].val,
             tags |-> f[6].val, revision |-> f[7].val, license |-> f[8].val,
             source_code_url |-> f[9].val, donate_url |-> f[10].val])

(***************************************************************************)
(* lv2.py: the Plugin and Bundle of the uploader.  An lv2.Bundle object is *)
(* [plugins, data, parses, returned]: returned says that the last call of  *)
(* parse() returned its data.                                              *)
(***************************************************************************)
\* lv2.Plugin.get_license: Ok(str), PluginFieldMissing or NotImplementedError
Lv2_get_license(g, t, i) ==
    LET value == get_field(g, i, "license")
        path == Lv2_parse_path(value)
    IN  IF ~Truthy(value)
        THEN Raise("PluginFieldMissing", "license", <<package_name(t)>>)
        ELSE IF Contains(value, s_file3) /\ path # NonePath
        THEN IF Exists(t, path)
             THEN Raise("NotImplementedError", "License file not supported", <<>>)
             ELSE Ok(PathName(path))
        ELSE Ok(value)

\* lv2.Plugin.get_screenshot: str(path) of a relative path has no leading '/'
Lv2_get_screenshot(g, t) ==
    LET path == Lv2_parse_path(get_nested_field(g, "gui_screenshot"))
    IN  IF path = NonePath \/ ~Exists(t, path)
        THEN Raise("PluginFieldMissing", "screenshot", <<package_name(t)>>)
        ELSE Ok(Join(path, s_slash))

\* lv2.Plugin._parse_data
Lv2_parse_data(g, t, i) ==
    IF ~Truthy(get_field(g, i, "name"))
    THEN Raise("PluginFieldMissing", "name", <<package_name(t)>>)
    ELSE IF ~Lv2_get_screenshot(g, t).ok THEN Lv2_get_screenshot(g, t)
    ELSE IF ~Lv2_get_license(g, t, i).ok THEN Lv2_get_license(g, t, i)
    ELSE Ok([uri |-> g.plugins[i].uri,
             name |-> get_field(g, i, "name"),
             label |-> get_field(g, i, "label"),
             brand |-> get_brand(g, i),
             screenshot |-> Lv2_get_screenshot(g, t).val,
             license |-> Lv2_get_license(g, t, i).val,
             comment |-> get_field(g, i, "comment"),
             version |-> get_version(g, i),
             stability |-> get_stability(get_version(g, i)),
             category |-> get_category(g, i),
             author |-> get_author(g)])

NewLv2Bundle == [plugins |-> <<>>, data |-> NoData, parses |-> 0, returned |-> FALSE]

\* lv2.Bundle.validate_files: glob() gives a generator, which is never falsy,
\* so the .so check cannot fail
Lv2_validate_files(t) ==
    IF ~fs[t].is_dir
    THEN Raise("BundleBadContents", "Invalid folder name", <<package_name(t)>>)
    ELSE IF ~Exists(t, manifest_path(t))
    THEN Raise("BundleBadContents", "No manifest.ttl in folder", <<package_name(t)>>)
    ELSE Ok(NoneStr)

\* lv2.Bundle.parse, given res[i] = Plugin.parse of the Plugin of subject i:
\* self._data is assigned before the plugins are parsed
Lv2Bundle_parse_plugins(b, t, res) ==
    LET n == Len(res)
        bad == {i \in 1..n : ~res[i].ok}
        k == IF bad = {} THEN n + 1 ELSE Min(bad)
        plugins1 == b.plugins \o [i \in 1..(k - 1) |->
                                     [subject |-> i, data |-> res[i].val, computed |-> 1]]
        data1 == [package_name |-> package_name(t),
                  plugins |-> [i \in 1..(k - 1) |-> res[i].val]]
        b0 == [b EXCEPT !.parses = @ + 1, !.returned = FALSE]
        b1 == [b0 EXCEPT !.plugins = plugins1, !.data = data1]
    IN  IF ~Lv2_validate_files(t).ok
        THEN [out |-> Lv2_validate_files(t), bundle |-> b0]
        ELSE IF bad # {} THEN [out |-> res[k], bundle |-> b1]
        ELSE IF Len(plugins1) = 0
        THEN [out |-> Raise("BundleBadContents", "No plugin found in folder",
                            <<package_name(t)>>),
              bundle |-> b1]
        ELSE [out |-> Ok(data1), bundle |-> [b1 EXCEPT !.returned = TRUE]]

\* lv2.Bundle.parse: [out: the outcome, bundle: the object after the call]
Lv2Bundle_parse(b, t) ==
    Bind([i \in 1..Len(graph[t].plugins) |-> Lv2_parse_data(graph[t], t, i)],
         LAMBDA res : Lv2Bundle_parse_plugins(b, t, res))

(***************************************************************************)
(* Bundle._parse_ttl: the loading of manifest.ttl and of the files its     *)
(* rdfs:seeAlso triples name, by bundles.Bundle ("bundles") or lv2.Bundle  *)
(* ("lv2").  The loader of a bundle is                                     *)
(*   disk         per ttl file of the bundle (a path relative to the       *)
(*                bundle's path): ok, whether its syntax is valid, and     *)
(*                see_also, the objects of its rdfs:seeAlso triples;       *)
(*   status       "idle", "loading" (inside _parse_ttl), "loaded"          *)
(*                (_parse_ttl has returned to parse()), "done";            *)
(*   stack        the calls of _parse_ttl that have not returned, the      *)
(*                innermost last: a frame is at pc "call" (the body has    *)
(*                not run) or at pc "loop" (in the for loop, todo being    *)
(*                the triples the iterator has yet to give);               *)
(*   parsed_files the keys of self.parsed_files (see KeyOf);                *)
(*   see_also     the objects of the rdfs:seeAlso triples of self.graph;   *)
(*   read         the files whose subjects are in self.graph;              *)
(*   log          what the calls did, in order: the warnings printed and   *)
(*                the files handed to graph.parse;                         *)
(*   runs         the calls of parse() so far.                             *)
(* graph[t] holds the plugin subjects that manifest.ttl declares.  The for *)
(* loop iterates over the seeAlso triples that the store holds when the    *)
(* loop starts.  A file whose syntax is invalid leaves in the store the    *)
(* triples that precede the error: all of the file's triples or none.      *)
(***************************************************************************)
StrArg(ref) == [is_path |-> FALSE, v |-> ref]

PathArg(path) == [is_path |-> TRUE, v |-> path]

\* self._parse_path(path) of the class lib
file_path_of(lib, arg) ==
    IF arg.is_path THEN arg.v
    ELSE IF lib = "lv2" THEN Lv2_parse_path(arg.v)
    ELSE parse_path(arg.v)

\* the key of self.parsed_files for the path of a call: the Path, which is
\* absolute for the bundle's own manifest_path and for a file:/// reference
\* cut by bundles.py, and relative (to the working directory, the root) for a
\* reference cut by lv2.py
KeyOf(lib, arg, file_path) ==
    [absolute |-> arg.is_path \/ lib # "lv2", parts |-> file_path]

\* str(path) of the argument of a call
ArgStr(arg) == IF arg.is_path THEN PathStr(arg.v) ELSE arg.v

\* what graph.parse finds in the file: a file that is no ttl file of the
\* bundle has no valid syntax
Content(ld, rel) ==
    IF rel \in DOMAIN ld.disk THEN ld.disk[rel] ELSE [ok |-> FALSE, see_also |-> <<>>]

Logged(ld, ev, arg) == [ld EXCEPT !.log = Append(@, [ev |-> ev, ref |-> ArgStr(arg)])]

\* the innermost call returns
Return(ld) ==
    [ld EXCEPT !.stack = SubSeq(@, 1, Len(@) - 1),
               !.status = IF Len(ld.stack) = 1 THEN "loaded" ELSE @]

\* parse() raises out
Failed(ld, out) == [ld EXCEPT !.stack = <<>>, !.status = "done", !.out = out]

\* graph.parse raises BadSyntax in the innermost call: the for loop of the
\* caller catches it; parse() raises it if there is no caller
Throw(ld) ==
    LET arg == ld.stack[Len(ld.stack)].arg
    IN  IF Len(ld.stack) = 1 THEN Failed(ld, Raise("BadSyntax", "", <<>>))
        ELSE IF EndsWith(ArgStr(arg), s_manifest_ttl)
        THEN Failed(ld, Raise(IF ld.lib = "lv2" THEN "PluginBadManifest"
                                                ELSE "PluginBadContents",
                              "Bad syntax", <<ArgStr(arg)>>))
        ELSE Return(Logged(ld, "Bad syntax (ignored)", arg))

\* graph.parse(file_path) and the start of the for loop; kept: the triples
\* of a file of invalid syntax are in the store
ReadFile(ld, t, file_path, kept) ==
    LET arg == ld.stack[Len(ld.stack)].arg
        file == Content(ld, Rel(t, file_path))
        ld1 == [Logged(ld, "parse", PathArg(Resolve(file_path)))
                   EXCEPT !.parsed_files = @ \cup {KeyOf(ld.lib, arg, file_path)}]
        ld2 == [ld1 EXCEPT !.see_also = @ \o file.see_also,
                           !.read = @ \cup {Rel(t, file_path)}]
    IN  IF ~file.ok THEN Throw(IF kept THEN ld2 ELSE ld1)
        ELSE [ld2 EXCEPT !.stack[Len(ld.stack)] =
                            [pc |-> "loop", arg |-> arg, todo |-> ld2.see_also]]

\* a _parse_ttl without the two early returns on the path: graph.parse is
\* handed any reference and raises for one that names no file
parse_ttl_unchecked(ld, t, kept, file_path) ==
    LET arg == ld.stack[Len(ld.stack)].arg
    IN  IF file_path = NonePath \/ ~Exists(t, file_path)
        THEN Failed(ld, Raise("FileNotFoundError", "", <<ArgStr(arg)>>))
        ELSE IF KeyOf(ld.lib, arg, file_path) \in ld.parsed_files THEN Return(ld)
        ELSE ReadFile(ld, t, file_path, kept)

\* a _parse_ttl that does not look into self.parsed_files
parse_ttl_again(ld, t, kept, file_path) ==
    LET arg == ld.stack[Len(ld.stack)].arg
    IN  IF file_path = NonePath
        THEN Return(IF ld.lib = "lv2" THEN ld ELSE Logged(ld, "Bad path", arg))
        ELSE IF ~Exists(t, file_path)
        THEN Return(IF ld.lib = "lv2" THEN ld
                    ELSE Logged(ld, "File not found", PathArg(file_path)))
        ELSE ReadFile(ld, t, file_path, kept)

\* Bundle._parse_ttl up to the for loop, in the innermost call, file_path
\* being self._parse_path(path)
parse_ttl_path(ld, t, kept, file_path) ==
    LET arg == ld.stack[Len(ld.stack)].arg
    IN  IF file_path = NonePath
        THEN Return(IF ld.lib = "lv2" THEN ld ELSE Logged(ld, "Bad path", arg))
        ELSE IF ~Exists(t, file_path)
        THEN Return(IF ld.lib = "lv2" THEN ld
                    ELSE Logged(ld, "File not found", PathArg(file_path)))
        ELSE IF KeyOf(ld.lib, arg, file_path) \in ld.parsed_files THEN Return(ld)
        ELSE ReadFile(ld, t, file_path, kept)

\* Bundle._parse_ttl up to the for loop, in the innermost call
parse_ttl(ld, t, kept) ==
    CHOOSE next \in {parse_ttl_path(ld, t, kept, file_path) :
                        file_path \in {file_path_of(ld.lib, ld.stack[Len(ld.stack)].arg)}} :
        TRUE

\* one turn of the for loop of the innermost call: the call of _parse_ttl on
\* the next triple's object, or the return when there is none
parse_ttl_loop(ld) ==
    LET top == ld.stack[Len(ld.stack)]
    IN  IF Len(top.todo) = 0 THEN Return(ld)
        ELSE [ld EXCEPT !.stack =
                 Append([@ EXCEPT ![Len(ld.stack)].todo = Tail(top.todo)],
                        [pc |-> "call", arg |-> StrArg(Head(top.todo))])]

\* the graph parse() reads the plugin subjects from
LoadedGraph(ld, t) ==
    IF <<s_manifest_ttl>> \in ld.read THEN graph[t] ELSE [plugins |-> <<>>]

\* parse() of bundles.Bundle after self._parse_ttl(self.manifest_path)
Bundle_parse_loaded(b, t, g) ==
    Bind([i \in 1..Len(g.plugins) |-> Plugin_parse(NewPlugin(i), g, t)],
         LAMBDA res : Bundle_parse_plugins(b, t, res))

\* parse() of lv2.Bundle after self._parse_ttl(self.path / 'manifest.ttl')
Lv2Bundle_parse_loaded(b, t, g) ==
    Bind([i \in 1..Len(g.plugins) |-> Lv2_parse_data(g, t, i)],
         LAMBDA res : Lv2Bundle_parse_plugins(b, t, res))

(***************************************************************************)
(* uploader.py: the record built for Patchstorage from the data of an      *)
(* lv2.Bundle.  PS_LICENSES, PS_CATEGORIES and PS_SOURCES are the tables   *)
(* loaded from licenses.json, categories.json and sources.json; the        *)
(* variable PS_TAGS_DEFAULT is the module's list of that name, held as the *)
(* set of its elements (no element is appended twice).                     *)
(***************************************************************************)
PS_LV2_PLATFORM_ID == 5027

PS_LICENSES == LicensesMap

PS_CATEGORIES == <<[id |-> <<"9", "1">>, values |-> <<s_Reverb>>],
                   [id |-> <<"9", "2">>, values |-> <<s_Delay>>],
                   [id |-> <<"9", "3">>, values |-> <<s_Pitch_Shifter>>],
                   [id |-> <<"9", "4">>, values |-> <<s_Spectral>>]>>

PS_SOURCES == <<[id |-> s_src_url, values |-> <<s_pkg>>]>>

Same(s) == s

\* uploader.get_license
Uploader_get_license(license) ==
    IF InvertedGet(PS_LICENSES, Lower, Lower(license)) = NoneStr
    THEN Raise("PatchstorageFieldMissing", "Missing license slug", <<Lower(license)>>)
    ELSE Ok(ParseInt(Lower(InvertedGet(PS_LICENSES, Lower, Lower(license)))))

\* uploader.get_category: list(set(result))
Uploader_get_category(cats) ==
    IF \E cat \in cats : InvertedGet(PS_CATEGORIES, Same, cat) = NoneStr
    THEN Raise("KeyError", "inverted[cat]", <<>>)
    ELSE Ok({ParseInt(InvertedGet(PS_CATEGORIES, Same, cat)) : cat \in cats})

\* uploader.get_source_url
Uploader_get_source_url(folder) ==
    IF InvertedGet(PS_SOURCES, Same, folder) = NoneStr
    THEN Raise("PatchstorageFieldMissing", "Missing source_url field", <<folder>>)
    ELSE Ok(InvertedGet(PS_SOURCES, Same, folder))

\* uploader.get_state
Uploader_get_state(stability) ==
    IF stability = "experimental" THEN StateWorkInProgress ELSE StateReady

\* uploader.get_title
Uploader_get_title(plugin, folder) ==
    IF Truthy(plugin.label) THEN Ok(plugin.label)
    ELSE IF Truthy(plugin.name) THEN Ok(plugin.name)
    ELSE Raise("PatchstorageFieldMissing", "Missing title", <<folder>>)

\* the local "license" of get_data_for_patchstorage after i plugins
RECURSIVE LoopLicense(_, _)
LoopLicense(plugins, i) ==
    IF i = 0 THEN <<>>
    ELSE IF ~Truthy(LoopLicense(plugins, i - 1)) THEN plugins[i].license
    ELSE LoopLicense(plugins, i - 1)

\* the tag of a category: cat.lower().replace(' ', '-')
TagOf(cat) == Replace(Lower(cat), <<" ">>, <<"-">>)

\* the text blocks that make the content of the record, in order (the
\* layout of the text in characters is not modelled)
ContentOf(plugins, folder, is_bundle) ==
    [i \in 1..Len(plugins) |->
        [title |-> IF is_bundle THEN Uploader_get_title(plugins[i], folder).val
                   ELSE NoneStr,
         credit |-> IF Truthy(plugins[i].author) THEN plugins[i].author ELSE NoneStr,
         text |-> plugins[i].comment]]

\* uploader.get_data_for_patchstorage:
\* [out: the outcome, tags: PS_TAGS_DEFAULT after the call]
get_data_for_patchstorage(bundle_data, tags0) ==
    LET folder == bundle_data.package_name
        plugins == bundle_data.plugins
        n == Len(plugins)
        is_bundle == n > 1
        name == IF is_bundle THEN Ok(folder \o s_Bundle)
                ELSE LET title == Uploader_get_title(plugins[1], folder)
                     IN  IF title.ok /\ Len(title.val) < ShortTitle
                         THEN Ok(title.val \o s_Plugin)
                         ELSE title
        bad == {i \in 1..n : /\ Truthy(LoopLicense(plugins, i - 1))
                             /\ LoopLicense(plugins, i - 1) # plugins[i].license}
        k == IF bad = {} THEN n + 1 ELSE Min(bad)
        category == UNION {plugins[i].category : i \in 1..(k - 1)}
        tags == tags0 \cup {TagOf(cat) : cat \in category}
        version == PyMax([i \in 1..n |-> plugins[i].version])
        license == Uploader_get_license(LoopLicense(plugins, n))
        categories == Uploader_get_category(category)
        source == Uploader_get_source_url(folder)
        state == Uploader_get_state(plugins[n].stability)
    IN  IF bundle_data = NoData \/ n = 0
        THEN [out |-> Raise("AssertionError", "", <<>>), tags |-> tags0]
        ELSE IF ~name.ok THEN [out |-> name, tags |-> tags0]
        ELSE IF bad # {}
        THEN [out |-> Raise("Exception", "License mismatch",
                            <<folder, LoopLicense(plugins, k - 1), plugins[k].license>>),
              tags |-> tags]
        ELSE IF ~license.ok THEN [out |-> license, tags |-> tags]
        ELSE IF ~categories.ok THEN [out |-> categories, tags |-> tags]
        ELSE IF ~source.ok THEN [out |-> source, tags |-> tags]
        ELSE [out |-> Ok([uids |-> [i \in 1..n |-> plugins[i].uri],
                          state |-> state,
                          platform |-> PS_LV2_PLATFORM_ID,
                          categories |-> categories.val,
                          title |-> name.val,
                          content |-> ContentOf(plugins, folder, is_bundle),
                          tags |-> tags,
                          revision |-> version,
                          license |-> license.val,
                          source_code_url |-> source.val]),
              tags |-> tags]

(***************************************************************************)
(* bundles.PatchstorageMultiTargetBundle and the checks of uploader.py     *)
(* over the targets of a package.  The targets are walked in the order     *)
(* 1..NumTargets.                                                          *)
(***************************************************************************)
\* set([f.name for f in bundle.path.glob('**/*')])
NamesOf(t) == {PathName(p) : p \in GlobAll(t)}

\* base_names ^ new_names
SymDiff(a, b) == (a \ b) \cup (b \ a)

\* PatchstorageMultiTargetBundle.validate_targets_files
validate_targets_files ==
    LET bad == {t \in Targets : t > 1 /\ NamesOf(t - 1) # NamesOf(t)}
    IN  IF bad = {} THEN Ok(TRUE)
        ELSE Raise("BundleBadContents", "Found differences in",
                   <<BundlePath(Min(bad)), BundlePath(Min(bad) - 1),
                     SymDiff(NamesOf(Min(bad) - 1), NamesOf(Min(bad)))>>)

\* uploader.is_same_targets_files
is_same_targets_files ==
    \A t \in Targets : t > 1 => NamesOf(t - 1) = NamesOf(t)

\* deepcopy(data) with del plugin['screenshot'] on every plugin
WithoutScreenshot(data) ==
    [data EXCEPT !.plugins =
        [i \in 1..Len(data.plugins) |->
            [f \in (DOMAIN data.plugins[i]) \ {"screenshot"} |-> data.plugins[i][f]]]]

\* sorted(d) of a dict d: the sorted list of the KEYS of d, here their set
SortedDict(d) == DOMAIN d

\* PatchstorageMultiTargetBundle.validate_targets_data on the bundles bs
validate_targets_data(bs) ==
    LET unparsed == {t \in Targets : bs[t].data = NoData}
        differ == {t \in Targets :
                      /\ t > 1
                      /\ bs[t - 1].data # NoData /\ bs[t].data # NoData
                      /\ SortedDict(WithoutScreenshot(bs[t - 1].data))
                           # SortedDict(WithoutScreenshot(bs[t].data))}
    IN  IF unparsed # {} /\ (differ = {} \/ Min(unparsed) <= Min(differ))
        THEN NotParsed(Min(unparsed))
        ELSE IF differ # {}
        THEN Raise("BundleBadContents", "Found differences in data",
                   <<BundlePath(Min(differ))>>)
        ELSE Ok(TRUE)

\* uploader.is_same_plugins_data on the data of the targets, in order
is_same_plugins_data(targets_data) ==
    \A t \in Targets :
        t > 1 => SortedDict(WithoutScreenshot(targets_data[t - 1]))
                    = SortedDict(WithoutScreenshot(targets_data[t]))

(***************************************************************************)
(* The packages of the model.  Every target holds manifest.ttl, a .so file *)
(* and the screenshot of the GUI; the optional files vary.  A manifest is  *)
(* built from the fields that a target's build does not change.            *)
(***************************************************************************)
BaseFiles == {<<s_manifest_ttl>>, <<s_amp_so>>, <<s_modgui, s_shot_png>>}

OptFiles == {<<s_modgui, s_icon_png>>, <<s_res, s_icon_png>>, <<s_notes_txt>>}

Tree(opt) == [is_dir |-> TRUE, dirs |-> {<<s_modgui>>, <<s_res>>},
              files |-> BaseFiles \cup opt]

Trees == {Tree(opt) : opt \in SUBSET OptFiles}

\* the URI of the screenshot in the manifest of target t
ScreenshotRef(t) ==
    s_file3 \o Join(BundlePath(t) \o <<s_modgui, s_shot_png>>, s_slash)

Uris == <<"urn:p1", "urn:p2", "urn:p3", "urn:p4", "urn:p5">>

Field(name, label, license, minor, micro) ==
    [name |-> name, label |-> label, license |-> license,
     minor |-> minor, micro |-> micro]

Manifest(t, fields) ==
    [plugins |-> [i \in 1..Len(fields) |->
        [uri |-> Uris[i],
         name |-> fields[i].name,
         label |-> fields[i].label,
         brand |-> NoneStr,
         license |-> fields[i].license,
         comment |-> NoneStr,
         minor |-> fields[i].minor,
         micro |-> fields[i].micro,
         types |-> <<ns_lv2core \o ty_Plugin, ns_lv2core \o ty_ReverbPlugin>>,
         developer |-> NoneStr,
         maintainer |-> NoneStr,
         gui_screenshot |-> ScreenshotRef(t),
         gui_brand |-> NoneStr]]]

\* the sequences over S of a length in lo..hi
SeqsOf(S, lo, hi) == UNION {[1..n -> S] : n \in lo..hi}

\* no bundle is loading
NoLoader == [status |-> "idle"]

\* prepare_plugins_files is not running
NoBatch == [status |-> "idle"]

\* Patchstorage.push has not been called
NoPush == [status |-> "idle"]

InitObjects ==
    /\ bundles = [t \in Targets |-> NewBundle]
    /\ lv2 = [t \in Targets |-> NewLv2Bundle]
    /\ pc = "idle"
    /\ steps = <<>>
    /\ PS_TAGS_DEFAULT = {s_lv2_plugin}
    /\ result = [op |-> "none"]
    /\ loader = NoLoader
    /\ batch = NoBatch
    /\ push = NoPush

(***************************************************************************)
(* PatchstorageMultiTargetBundle.validate(), one step per call it makes.   *)
(* pc is "idle" before the first call, "files_checked" while the bundles   *)
(* are parsed, "parsed" before the data check, and "valid" or "invalid"    *)
(* once validate() has returned or raised.                                 *)
(***************************************************************************)
\* a validate() that swallows what the file-set check raises and goes on
AfterStepSwallow(step, ok, last) ==
    IF step = "files" THEN "files_checked"
    ELSE IF ~ok THEN "invalid"
    ELSE IF step = "parse" THEN (IF last THEN "parsed" ELSE "files_checked")
    ELSE "valid"

\* the position of validate() after a step that returned (ok) or raised
AfterStep(step, ok, last) ==
    IF ~ok THEN "invalid"
    ELSE IF step = "files" THEN "files_checked"
    ELSE IF step = "parse" THEN (IF last THEN "parsed" ELSE "files_checked")
    ELSE "valid"

\* the bundle that parse_bundles parses next
ParseIndex == Len(SelectSeq(steps, LAMBDA s : s.step = "parse")) + 1

ValidateFiles ==
    /\ pc \in {"idle", "valid", "invalid"}
    /\ \A t \in Targets : bundles[t].parses < MaxParses
    /\ \E out \in {validate_targets_files} :
           /\ steps' = <<[step |-> "files", t |-> 0, ok |-> out.ok]>>
           /\ pc' = AfterStep("files", out.ok, FALSE)
           /\ result' = IF out.ok THEN [op |-> "validate", running |-> TRUE]
                        ELSE [op |-> "validate", out |-> out]
    /\ UNCHANGED <<push, batch, loader, fs, graph, bundles, lv2, PS_TAGS_DEFAULT>>

ValidateParse ==
    /\ pc = "files_checked"
    /\ \E t \in {ParseIndex} : \E r \in {Bundle_parse(bundles[t], t)} :
           /\ bundles' = [bundles EXCEPT ![t] = r.bundle]
           /\ steps' = Append(steps, [step |-> "parse", t |-> t, ok |-> r.out.ok])
           /\ pc' = AfterStep("parse", r.out.ok, t = NumTargets)
           /\ result' = IF r.out.ok THEN result
                        ELSE [op |-> "validate", out |-> r.out]
    /\ UNCHANGED <<push, batch, loader, fs, graph, lv2, PS_TAGS_DEFAULT>>

ValidateData ==
    /\ pc = "parsed"
    /\ \E out \in {validate_targets_data(bundles)} :
           /\ steps' = Append(steps, [step |-> "data", t |-> 0, ok |-> out.ok])
           /\ pc' = AfterStep("data", out.ok, FALSE)
           /\ result' = [op |-> "validate",
                         out |-> IF out.ok THEN Ok(NoneStr) ELSE out]
    /\ UNCHANGED <<push, batch, loader, fs, graph, bundles, lv2, PS_TAGS_DEFAULT>>

(***************************************************************************)
(* uploader.prepare_plugins_files: the body of its loop for the package,   *)
(* up to the record for Patchstorage (the files it then writes to dist are *)
(* not modelled).  Each target is parsed with a fresh lv2.Bundle.          *)
(***************************************************************************)
\* the loop body, given parsed[t] = Bundle(target_path).parse() of target t and
\* rec = get_data_for_patchstorage(bundle_data) of the last target's data
prepare_parsed(parsed, rec, tags0) ==
    LET bad == {t \in Targets : ~parsed[t].out.ok}
        targets_data == [t \in Targets |-> parsed[t].bundle.data]
    IN  IF ~is_same_targets_files
        THEN [status |-> "skip", out |-> Ok(FALSE), tags |-> tags0]
        ELSE IF bad # {}
        THEN [status |-> IF parsed[Min(bad)].out.exc
                              \in {"MultiplePluginsDetected", "PluginFieldMissing"}
                         THEN "skip" ELSE "raise",
              out |-> parsed[Min(bad)].out, tags |-> tags0]
        ELSE IF ~is_same_plugins_data(targets_data)
        THEN [status |-> "skip", out |-> Ok(FALSE), tags |-> tags0]
        ELSE IF ~rec.out.ok
        THEN [status |-> IF rec.out.exc = "PatchstorageFieldMissing"
                         THEN "skip" ELSE "raise",
              out |-> rec.out, tags |-> rec.tags]
        ELSE [status |-> "prepared", out |-> rec.out, tags |-> rec.tags]

\* [status: "skip" (continue), "raise" (the exception leaves the loop) or
\*  "prepared"; out: the exception or the record; tags: PS_TAGS_DEFAULT after]
prepare_package(tags0) ==
    Bind([t \in Targets |-> Lv2Bundle_parse(NewLv2Bundle, t)],
         LAMBDA parsed :
            Bind(get_data_for_patchstorage(parsed[NumTargets].bundle.data, tags0),
                 LAMBDA rec : prepare_parsed(parsed, rec, tags0)))

Prepare ==
    /\ pc \in {"idle", "valid", "invalid"}
    /\ \E r \in {prepare_package(PS_TAGS_DEFAULT)} :
           /\ result' = [op |-> "prepare", status |-> r.status, out |-> r.out]
           /\ PS_TAGS_DEFAULT' = r.tags
    /\ UNCHANGED <<push, batch, loader, fs, graph, bundles, lv2, pc, steps>>

(***************************************************************************)
(* Calls on one bundle: the first bundle of the package, the one           *)
(* get_patchstorage_data reads.                                            *)
(***************************************************************************)
First == 1

Parse(t) ==
    /\ pc \in {"idle", "valid", "invalid"}
    /\ bundles[t].parses < MaxParses
    /\ \E r \in {Bundle_parse(bundles[t], t)} :
           /\ bundles' = [bundles EXCEPT ![t] = r.bundle]
           /\ result' = [op |-> "parse", t |-> t, out |-> r.out]
    /\ UNCHANGED <<push, batch, loader, fs, graph, lv2, pc, steps, PS_TAGS_DEFAULT>>

\* plugin.parse() on a Plugin object of the bundle
PluginParse(t) ==
    /\ pc \in {"idle", "valid", "invalid"}
    /\ \E i \in 1..Len(bundles[t].plugins) :
          \E r \in {Plugin_parse(bundles[t].plugins[i], graph[t], t)} :
              /\ bundles' = [bundles EXCEPT ![t].plugins[i] = r.plugin]
              /\ result' = [op |-> "plugin.parse", t |-> t, i |-> i, out |-> r.out]
    /\ UNCHANGED <<push, batch, loader, fs, graph, lv2, pc, steps, PS_TAGS_DEFAULT>>

GetTitle(t) ==
    /\ pc \in {"idle", "valid", "invalid"}
    /\ result' = [op |-> "get_title", t |-> t, out |-> get_title(bundles[t], t)]
    /\ UNCHANGED <<push, batch, loader, fs, graph, bundles, lv2, pc, steps, PS_TAGS_DEFAULT>>

GetLicenseId(t) ==
    /\ pc \in {"idle", "valid", "invalid"}
    /\ \E licenses_map \in LicenseTables, overwrites \in Overwrites :
          result' = [op |-> "get_license_id", t |-> t,
                     licenses_map |-> licenses_map, overwrites |-> overwrites,
                     out |-> get_license_id(bundles[t], t, licenses_map, overwrites)]
    /\ UNCHANGED <<push, batch, loader, fs, graph, bundles, lv2, pc, steps, PS_TAGS_DEFAULT>>

GetStateId(t) ==
    /\ pc \in {"idle", "valid", "invalid"}
    /\ result' = [op |-> "get_state_id", t |-> t, out |-> get_state_id(bundles[t], t)]
    /\ UNCHANGED <<push, batch, loader, fs, graph, bundles, lv2, pc, steps, PS_TAGS_DEFAULT>>

GetRevision(t) ==
    /\ pc \in {"idle", "valid", "invalid"}
    /\ result' = [op |-> "get_revision", t |-> t, out |-> get_revision(bundles[t], t)]
    /\ UNCHANGED <<push, batch, loader, fs, graph, bundles, lv2, pc, steps, PS_TAGS_DEFAULT>>

GetCategoryIds(t) ==
    /\ pc \in {"idle", "valid", "invalid"}
    /\ \E overwrites \in CategoryOverwrites :
          result' = [op |-> "get_category_ids", t |-> t,
                     categories |-> CategoriesMap, overwrites |-> overwrites,
                     out |-> get_category_ids(bundles[t], t, CategoriesMap, overwrites)]
    /\ UNCHANGED <<push, batch, loader, fs, graph, bundles, lv2, pc, steps, PS_TAGS_DEFAULT>>

\* bundle.validate_files() called on the bundle of the target
ValidateFilesCall(t) ==
    /\ pc \in {"idle", "valid", "invalid"}
    /\ result' = [op |-> "validate_files", t |-> t, out |-> validate_files(t)]
    /\ UNCHANGED <<push, batch, loader, fs, graph, bundles, lv2, pc, steps, PS_TAGS_DEFAULT>>

\* lv2.Bundle.validate_files() called on the lv2.Bundle of the target
Lv2ValidateFilesCall(t) ==
    /\ pc \in {"idle", "valid", "invalid"}
    /\ result' = [op |-> "lv2.validate_files", t |-> t, out |-> Lv2_validate_files(t)]
    /\ UNCHANGED <<push, batch, loader, fs, graph, bundles, lv2, pc, steps, PS_TAGS_DEFAULT>>

\* parse() is called on the bundle of the loader: validate_files(), then
\* the call self._parse_ttl(self.manifest_path)
LoadStart(t) ==
    /\ loader.status \in {"idle", "done"}
    /\ loader.runs < MaxParses
    /\ \E out \in {IF loader.lib = "lv2" THEN Lv2_validate_files(t)
                                         ELSE validate_files(t)} :
          /\ loader' = IF out.ok
                       THEN [loader EXCEPT
                                !.runs = @ + 1, !.status = "loading",
                                !.stack = <<[pc |-> "call",
                                             arg |-> PathArg(manifest_path(t))]>>]
                       ELSE [Failed(loader, out) EXCEPT !.runs = @ + 1]
          /\ result' = IF out.ok THEN [op |-> "parse", t |-> t, running |-> TRUE]
                       ELSE [op |-> "parse", t |-> t, out |-> out]
    /\ UNCHANGED <<push, batch, fs, graph, bundles, lv2, pc, steps, PS_TAGS_DEFAULT>>

\* the innermost call of _parse_ttl runs up to its for loop
LoadEnter(t) ==
    /\ loader.status = "loading"
    /\ loader.stack[Len(loader.stack)].pc = "call"
    /\ \E kept \in BOOLEAN : \E ld \in {parse_ttl(loader, t, kept)} :
          /\ loader' = ld
          /\ result' = IF ld.status = "done"
                       THEN [op |-> "parse", t |-> t, out |-> ld.out]
                       ELSE result
    /\ UNCHANGED <<push, batch, fs, graph, bundles, lv2, pc, steps, PS_TAGS_DEFAULT>>

\* the for loop of the innermost call makes its next turn
LoadLoop(t) ==
    /\ loader.status = "loading"
    /\ loader.stack[Len(loader.stack)].pc = "loop"
    /\ Len(loader.stack[Len(loader.stack)].todo) > 0 => Len(loader.stack) < MaxDepth
    /\ loader' = parse_ttl_loop(loader)
    /\ UNCHANGED <<push, batch, fs, graph, bundles, lv2, pc, steps, PS_TAGS_DEFAULT, result>>

\* _parse_ttl has returned to parse(), which parses the plugins
LoadFinish(t) ==
    /\ loader.status = "loaded"
    /\ IF loader.lib = "lv2"
       THEN \E r \in {Lv2Bundle_parse_loaded(lv2[t], t, LoadedGraph(loader, t))} :
               /\ lv2' = [lv2 EXCEPT ![t] = r.bundle]
               /\ loader' = [loader EXCEPT !.status = "done", !.out = r.out]
               /\ result' = [op |-> "parse", t |-> t, out |-> r.out]
               /\ UNCHANGED bundles
       ELSE \E r \in {Bundle_parse_loaded(bundles[t], t, LoadedGraph(loader, t))} :
               /\ bundles' = [bundles EXCEPT ![t] = r.bundle]
               /\ loader' = [loader EXCEPT !.status = "done", !.out = r.out]
               /\ result' = [op |-> "parse", t |-> t, out |-> r.out]
               /\ UNCHANGED lv2
    /\ UNCHANGED <<push, batch, fs, graph, pc, steps, PS_TAGS_DEFAULT>>

\* the overwrites of a package in plugins.json
PsOverwrites ==
    {[license |-> NoneStr, categories |-> NoneStr, tags |-> NoneStr,
      source_code_url |-> NoneStr, donate_url |-> NoneStr],
     [license |-> NoneStr, categories |-> NoneStr, tags |-> NoneStr,
      source_code_url |-> s_src_url, donate_url |-> s_donate_url],
     [license |-> s_GPL, categories |-> <<s_Delay>>, tags |-> <<s_Amps>>,
      source_code_url |-> s_src_url, donate_url |-> s_donate_url]}

GetData(t) ==
    /\ pc \in {"idle", "valid", "invalid"}
    /\ result' = [op |-> "data", t |-> t, out |-> Bundle_data(bundles[t], t)]
    /\ UNCHANGED <<push, batch, loader, fs, graph, bundles, lv2, pc, steps, PS_TAGS_DEFAULT>>

GetUids(t) ==
    /\ pc \in {"idle", "valid", "invalid"}
    /\ result' = [op |-> "get_uids", t |-> t, out |-> get_uids(bundles[t], t)]
    /\ UNCHANGED <<push, batch, loader, fs, graph, bundles, lv2, pc, steps, PS_TAGS_DEFAULT>>

GetComment(t) ==
    /\ pc \in {"idle", "valid", "invalid"}
    /\ result' = [op |-> "get_comment", t |-> t, out |-> get_comment(bundles[t], t)]
    /\ UNCHANGED <<push, batch, loader, fs, graph, bundles, lv2, pc, steps, PS_TAGS_DEFAULT>>

GetTags(t) ==
    /\ pc \in {"idle", "valid", "invalid"}
    /\ \E default_tags \in {<<>>, <<s_lv2_plugin>>}, overwrites \in PsOverwrites :
          result' = [op |-> "get_tags", t |-> t, overwrites |-> overwrites,
                     out |-> Bundle_get_tags(bundles[t], t, default_tags, overwrites)]
    /\ UNCHANGED <<push, batch, loader, fs, graph, bundles, lv2, pc, steps, PS_TAGS_DEFAULT>>

\* multi_bundle.validate_targets_data() called on its own
ValidateTargetsData ==
    /\ pc \in {"idle", "valid", "invalid"}
    /\ result' = [op |-> "validate_targets_data", out |-> validate_targets_data(bundles)]
    /\ UNCHANGED <<push, batch, loader, fs, graph, bundles, lv2, pc, steps, PS_TAGS_DEFAULT>>

\* multi_bundle.get_patchstorage_data(...), which reads self.bundles[0]
GetPatchstorageData ==
    /\ pc \in {"idle", "valid", "invalid"}
    /\ \E overwrites \in PsOverwrites :
          \E f \in {PatchstorageFields(bundles[First], First, LicensesMap,
                                       CategoriesMap, overwrites, <<s_lv2_plugin>>)} :
             result' = [op |-> "get_patchstorage_data", overwrites |-> overwrites,
                        out |-> PatchstorageRecord(PS_LV2_PLATFORM_ID, f)]
    /\ UNCHANGED <<push, batch, loader, fs, graph, bundles, lv2, pc, steps, PS_TAGS_DEFAULT>>

\* lv2.Bundle.parse on the lv2.Bundle object of the target
Lv2Parse(t) ==
    /\ pc \in {"idle", "valid", "invalid"}
    /\ lv2[t].parses < MaxParses
    /\ \E r \in {Lv2Bundle_parse(lv2[t], t)} :
           /\ lv2' = [lv2 EXCEPT ![t] = r.bundle]
           /\ result' = [op |-> "lv2.parse", t |-> t, out |-> r.out]
    /\ UNCHANGED <<push, batch, loader, fs, graph, bundles, pc, steps, PS_TAGS_DEFAULT>>

(***************************************************************************)
(* Spec: the targets of a package differ in their optional files, in the   *)
(* number of plugins and in the license their manifests declare.           *)
(***************************************************************************)
PlainField(license) == Field(s_Reverb, NoneStr, license, <<"1">>, <<"2">>)

SpecManifests == {<<>>, <<PlainField(s_MIT)>>, <<PlainField(s_GPL)>>}

Init ==
    /\ InitObjects
    /\ fs \in [Targets -> Trees]
    /\ \E m \in [Targets -> SpecManifests] :
          graph = [t \in Targets |-> Manifest(t, m[t])]

Next == ValidateFiles \/ ValidateParse \/ ValidateData \/ Prepare

Spec == Init /\ [][Next]_vars

(***************************************************************************)
(* SpecBundle: one package, the same for every target, whose plugins       *)
(* differ in name and label; parse() is called up to MaxParses times.      *)
(***************************************************************************)
TitleField(name, label) == Field(name, label, s_MIT, <<"1">>, <<"2">>)

TitleManifests ==
    {<<>>}
    \cup {<<TitleField(name, label)>> :
            name \in {s_Lo, s_Reverb},
            label \in {NoneStr, <<>>, <<" ">>, s_Amps, s_Delay}}
    \cup SeqsOf({TitleField(s_Lo, NoneStr), TitleField(s_Reverb, s_Delay)},
                2, MaxPlugins)

InitBundle ==
    /\ InitObjects
    /\ fs = [t \in Targets |-> Tree({})]
    /\ \E m \in TitleManifests : graph = [t \in Targets |-> Manifest(t, m)]

NextBundle == Parse(First) \/ PluginParse(First) \/ GetTitle(First) \/ Lv2Parse(First)

SpecBundle == InitBundle /\ [][NextBundle]_vars

(***************************************************************************)
(* SpecLicense: one package whose plugins declare, each, no license or one *)
(* of three license strings, two of which differ only in letter case.      *)
(***************************************************************************)
LicenseField(license) == Field(s_Reverb, NoneStr, license, <<"1">>, <<"2">>)

LicenseManifests ==
    SeqsOf({LicenseField(l) : l \in {NoneStr, s_MIT, s_mit, s_GPL}}, 1, MaxPlugins)

InitLicense ==
    /\ InitObjects
    /\ fs = [t \in Targets |-> Tree({})]
    /\ \E m \in LicenseManifests : graph = [t \in Targets |-> Manifest(t, m)]

NextLicense == Parse(First) \/ GetLicenseId(First)

SpecLicense == InitLicense /\ [][NextLicense]_vars

(***************************************************************************)
(* SpecVersion: one package with one plugin of any version up to MaxVer    *)
(* (a version literal may be absent), or with several plugins whose        *)
(* versions are drawn from SampleVersions.                                 *)
(***************************************************************************)
VersionField(minor, micro) == Field(s_Reverb, NoneStr, s_MIT, minor, micro)

Literals == {NoneStr} \cup {FormatInt(n) : n \in 0..MaxVer}

SampleVersions == {<<0, 3>>, <<2, 0>>, <<9, 0>>, <<10, 0>>, <<1, 2>>, <<1, 10>>}

VersionManifests ==
    {<<VersionField(minor, micro)>> : minor \in Literals, micro \in Literals}
    \cup SeqsOf({VersionField(FormatInt(v[1]), FormatInt(v[2])) : v \in SampleVersions},
                2, MaxPlugins)

InitVersion ==
    /\ InitObjects
    /\ fs = [t \in Targets |-> Tree({})]
    /\ \E m \in VersionManifests : graph = [t \in Targets |-> Manifest(t, m)]

NextVersion == Parse(First) \/ GetStateId(First) \/ GetRevision(First) \/ Prepare

SpecVersion == InitVersion /\ [][NextVersion]_vars

(***************************************************************************)
(* SpecCategory: one package of two plugins; each declares the type        *)
(* lv2core:Plugin and up to MaxTypes - 1 more types, in any order: types   *)
(* of the map that share a tag, a type of the mod namespace, a type the    *)
(* map does not know, and a type of a namespace that is not read.          *)
(***************************************************************************)
MoreTypes == {ns_lv2core \o ty_DistortionPlugin, ns_lv2core \o ty_WaveshaperPlugin,
              ns_mod \o ty_DelayPlugin, ns_lv2core \o ty_NoSuchPlugin,
              ns_modgui \o ty_ReverbPlugin}

\* the lists without repetition of the elements of S
Orders(S) ==
    {l \in [1..Cardinality(S) -> S] : \A i, j \in 1..Cardinality(S) : l[i] = l[j] => i = j}

TypeLists ==
    UNION {Orders(more \cup {ns_lv2core \o ty_Plugin}) :
              more \in {m \in SUBSET MoreTypes : Cardinality(m) < MaxTypes}}

TypedManifest(t, types, license) ==
    [plugins |-> [i \in 1..Len(types) |->
        [Manifest(t, <<PlainField(license), PlainField(license)>>).plugins[i]
            EXCEPT !.types = types[i]]]]

InitCategory ==
    /\ InitObjects
    /\ fs = [t \in Targets |-> Tree({})]
    /\ \E one \in TypeLists :
          \E two \in Orders(SeqToSet(one)) \cup {<<ns_lv2core \o ty_Plugin,
                                                   ns_lv2core \o ty_DistortionPlugin>>} :
              graph = [t \in Targets |-> TypedManifest(t, <<one, two>>, s_MIT)]

NextCategory == Parse(First) \/ GetCategoryIds(First)

SpecCategory == InitCategory /\ [][NextCategory]_vars

(***************************************************************************)
(* SpecTables: one package of two plugins of one license, resolved against *)
(* the license tables and the category table of the caller.                *)
(***************************************************************************)
TablesTypes == {<<ns_lv2core \o ty_Plugin>>,
                <<ns_lv2core \o ty_Plugin, ns_lv2core \o ty_DistortionPlugin>>,
                <<ns_lv2core \o ty_Plugin, ns_lv2core \o ty_WaveshaperPlugin>>,
                <<ns_lv2core \o ty_Plugin, ns_mod \o ty_DelayPlugin>>,
                <<ns_lv2core \o ty_Plugin, ns_lv2core \o ty_ReverbPlugin>>}

InitTables ==
    /\ InitObjects
    /\ fs = [t \in Targets |-> Tree({})]
    /\ \E one \in TablesTypes, two \in TablesTypes, license \in {s_MIT, s_mit, s_GPL} :
          graph = [t \in Targets |-> TypedManifest(t, <<one, two>>, license)]

NextTables == Parse(First) \/ GetCategoryIds(First) \/ GetLicenseId(First)

SpecTables == InitTables /\ [][NextTables]_vars

(***************************************************************************)
(* SpecFiles: one package whose path is no directory, or a directory from  *)
(* which the manifest, the shared object, or both are missing; its         *)
(* manifest, where it exists, is one of TitleManifests.                    *)
(***************************************************************************)
NotADir == [is_dir |-> FALSE, dirs |-> {}, files |-> {}]

FileTrees ==
    {NotADir}
    \cup {[is_dir |-> TRUE, dirs |-> {<<s_modgui>>, <<s_res>>},
           files |-> BaseFiles \ gone] :
             gone \in SUBSET {<<s_manifest_ttl>>, <<s_amp_so>>}}

InitFiles ==
    /\ InitObjects
    /\ \E tree \in FileTrees : fs = [t \in Targets |-> tree]
    /\ \E m \in TitleManifests :
          graph = [t \in Targets |->
                      IF Exists(t, manifest_path(t)) THEN Manifest(t, m)
                      ELSE Manifest(t, <<>>)]

NextFiles ==
    \/ ValidateFilesCall(First)
    \/ Lv2ValidateFilesCall(First)
    \/ Parse(First)
    \/ Lv2Parse(First)

SpecFiles == InitFiles /\ [][NextFiles]_vars

(***************************************************************************)
(* SpecFields: one package with one plugin subject, any of whose name,     *)
(* label, brand, license, comment and developer may be absent, and whose   *)
(* screenshot is absent, remote, a file that is missing or a file of the   *)
(* bundle.                                                                  *)
(***************************************************************************)
FileRef(t, rel) == s_file3 \o Join(BundlePath(t) \o rel, s_slash)

Screenshots(t) ==
    <<NoneStr, s_src_url, FileRef(t, <<s_modgui, s_icon_png>>), ScreenshotRef(t)>>

Subject(t, name, label, license, other, shot) ==
    [Manifest(t, <<Field(name, label, license, <<"1">>, <<"2">>)>>).plugins[1]
        EXCEPT !.brand = other, !.comment = other, !.developer = other,
               !.gui_screenshot = shot]

InitFields ==
    /\ InitObjects
    /\ fs = [t \in Targets |-> Tree({})]
    /\ \E name \in {NoneStr, <<>>, s_Reverb}, label \in {NoneStr, s_Amps},
          license \in {NoneStr, s_MIT}, other \in {NoneStr, s_Lo}, shot \in 1..4 :
          graph = [t \in Targets |->
                      [plugins |-> <<Subject(t, name, label, license, other,
                                             Screenshots(t)[shot])>>]]

NextFields == Parse(First) \/ PluginParse(First) \/ Lv2Parse(First)

SpecFields == InitFields /\ [][NextFields]_vars

(***************************************************************************)
(* SpecLoad: one package with the ttl files manifest.ttl, a.ttl and        *)
(* res/manifest.ttl, any of which may have invalid syntax.  manifest.ttl   *)
(* holds up to MaxRefs rdfs:seeAlso triples whose objects are a remote     *)
(* URL, a.ttl (as it is and through res/..), a file that is missing,       *)
(* manifest.ttl itself and res/manifest.ttl; a.ttl names nothing, itself,  *)
(* or res/manifest.ttl, which names a.ttl.  In one tree manifest.ttl is    *)
(* missing.  parse() is called up to MaxParses times, on a bundles.Bundle  *)
(* or on an lv2.Bundle.                                                    *)
(***************************************************************************)
LoadTree == [Tree({}) EXCEPT !.files = @ \cup {<<s_a_ttl>>, <<s_res, s_manifest_ttl>>}]

LoadTrees == {LoadTree, [LoadTree EXCEPT !.files = @ \ {<<s_manifest_ttl>>}]}

ManifestRefs(t) ==
    {s_src_url,
     FileRef(t, <<s_a_ttl>>),
     FileRef(t, <<s_res, <<".", ".">>, s_a_ttl>>),
     FileRef(t, <<s_x_ttl>>),
     FileRef(t, <<s_manifest_ttl>>),
     FileRef(t, <<s_res, s_manifest_ttl>>)}

Ttl(ok, see_also) == [ok |-> ok, see_also |-> see_also]

Disks(t) ==
    {(<<s_manifest_ttl>> :> Ttl(ok[1], refs)) @@
     (<<s_a_ttl>> :> Ttl(ok[2], a)) @@
     (<<s_res, s_manifest_ttl>> :> Ttl(ok[3], <<FileRef(t, <<s_a_ttl>>)>>)) :
        ok \in [1..3 -> BOOLEAN],
        refs \in SeqsOf(ManifestRefs(t), 0, MaxRefs),
        a \in {<<>>, <<FileRef(t, <<s_a_ttl>>)>>,
               <<FileRef(t, <<s_res, s_manifest_ttl>>)>>}}

NewLoader(lib, disk) ==
    [lib |-> lib, disk |-> disk, status |-> "idle", stack |-> <<>>,
     parsed_files |-> {}, see_also |-> <<>>, read |-> {}, log |-> <<>>,
     out |-> Ok(NoneStr), runs |-> 0]

InitLoad ==
    /\ bundles = [t \in Targets |-> NewBundle]
    /\ lv2 = [t \in Targets |-> NewLv2Bundle]
    /\ pc = "idle"
    /\ steps = <<>>
    /\ PS_TAGS_DEFAULT = {s_lv2_plugin}
    /\ result = [op |-> "none"]
    /\ \E tree \in LoadTrees : fs = [t \in Targets |-> tree]
    /\ graph = [t \in Targets |-> Manifest(t, <<PlainField(s_MIT)>>)]
    /\ \E lib \in {"bundles", "lv2"}, disk \in Disks(First) :
          loader = NewLoader(lib, disk)
    /\ batch = NoBatch
    /\ push = NoPush

NextLoad == LoadStart(First) \/ LoadEnter(First) \/ LoadLoop(First) \/ LoadFinish(First)

SpecLoad == InitLoad /\ [][NextLoad]_vars

(***************************************************************************)
(* SpecLoadFair: the package of SpecLoad with a manifest that names        *)
(* itself, a.ttl or res/manifest.ttl, a.ttl naming itself or               *)
(* res/manifest.ttl, which names a.ttl.  The interpreter goes on running a *)
(* call of _parse_ttl that has been made: a step of the loading is taken   *)
(* whenever one can be.                                                    *)
(***************************************************************************)
CyclicDisks(t) ==
    {(<<s_manifest_ttl>> :> Ttl(TRUE, refs)) @@
     (<<s_a_ttl>> :> Ttl(ok, a)) @@
     (<<s_res, s_manifest_ttl>> :> Ttl(TRUE, <<FileRef(t, <<s_a_ttl>>)>>)) :
        ok \in BOOLEAN,
        refs \in SeqsOf({FileRef(t, <<s_manifest_ttl>>), FileRef(t, <<s_a_ttl>>),
                         FileRef(t, <<s_res, s_manifest_ttl>>)}, 1, MaxRefs),
        a \in {<<FileRef(t, <<s_a_ttl>>)>>, <<FileRef(t, <<s_res, s_manifest_ttl>>)>>}}

InitLoadFair ==
    /\ bundles = [t \in Targets |-> NewBundle]
    /\ lv2 = [t \in Targets |-> NewLv2Bundle]
    /\ pc = "idle"
    /\ steps = <<>>
    /\ PS_TAGS_DEFAULT = {s_lv2_plugin}
    /\ result = [op |-> "none"]
    /\ fs = [t \in Targets |-> LoadTree]
    /\ graph = [t \in Targets |-> Manifest(t, <<PlainField(s_MIT)>>)]
    /\ \E lib \in {"bundles", "lv2"}, disk \in CyclicDisks(First) :
          loader = NewLoader(lib, disk)
    /\ batch = NoBatch
    /\ push = NoPush

SpecLoadFair ==
    /\ InitLoadFair
    /\ [][NextLoad]_vars
    /\ WF_vars(LoadEnter(First) \/ LoadLoop(First))

(***************************************************************************)
(* SpecDerived: one package, the same for every target, with no plugin,    *)
(* one plugin, two plugins, or a plugin without a name; parse() and the    *)
(* operations that read the parsed data are called in any order on the     *)
(* bundles of the package.                                                 *)
(***************************************************************************)
DerivedManifests ==
    {<<>>, <<PlainField(s_MIT)>>, <<PlainField(s_MIT), PlainField(s_MIT)>>,
     <<PlainField(s_MIT), Field(NoneStr, NoneStr, s_MIT, <<"1">>, <<"2">>)>>}

InitDerived ==
    /\ InitObjects
    /\ fs = [t \in Targets |-> Tree({})]
    /\ \E m \in DerivedManifests : graph = [t \in Targets |-> Manifest(t, m)]

NextDerived ==
    \/ \E t \in Targets : Parse(t)
    \/ GetData(First)
    \/ GetUids(First)
    \/ GetTitle(First)
    \/ GetLicenseId(First)
    \/ GetStateId(First)
    \/ GetRevision(First)
    \/ GetCategoryIds(First)
    \/ GetTags(First)
    \/ GetComment(First)
    \/ ValidateTargetsData
    \/ GetPatchstorageData

SpecDerived == InitDerived /\ [][NextDerived]_vars

(***************************************************************************)
(* SpecNested: one package of two plugin subjects.  Each subject links,    *)
(* or not, a developer node, a maintainer node and a GUI node of its own;  *)
(* the names, brands and screenshots on the nodes of the two subjects      *)
(* differ.  The subjects are numbered in the order of the triple store.    *)
(***************************************************************************)
\* the foaf:name of the developer (who = "d") or maintainer ("m") node, and
\* the modgui:brand ("b") of the GUI node, linked from subject i
NodeValue(who, i) == <<who, Digits[i + 1]>>

\* the screenshot of the GUI node of subject i, a file of the bundle
NodeScreenshot(t, i) ==
    FileRef(t, <<s_modgui, IF i = 1 THEN s_shot_png ELSE s_icon_png>>)

NestedSubject(t, i, developer, maintainer, gui, shot) ==
    [Manifest(t, <<PlainField(s_MIT), PlainField(s_MIT)>>).plugins[i]
        EXCEPT !.developer = IF developer THEN NodeValue("d", i) ELSE NoneStr,
               !.maintainer = IF maintainer THEN NodeValue("m", i) ELSE NoneStr,
               !.gui_brand = IF gui THEN NodeValue("b", i) ELSE NoneStr,
               !.gui_screenshot = IF shot THEN NodeScreenshot(t, i) ELSE NoneStr]

InitNested ==
    /\ InitObjects
    /\ fs = [t \in Targets |-> Tree({<<s_modgui, s_icon_png>>})]
    /\ \E developer, maintainer, gui, shot \in [1..2 -> BOOLEAN] :
          graph = [t \in Targets |->
                      [plugins |-> [i \in 1..2 |->
                          NestedSubject(t, i, developer[i], maintainer[i],
                                        gui[i], shot[i])]]]

NextNested == Parse(First) \/ PluginParse(First) \/ Lv2Parse(First)

SpecNested == InitNested /\ [][NextNested]_vars

(***************************************************************************)
(* SpecBatch: one run of uploader.prepare_plugins_files over the packages  *)
(* of plugins_map, up to MaxBatch of them, in the order of the dict.  A    *)
(* package is a good one (tagged Reverb or Delay), one whose plugin has no *)
(* name, one without a plugin, or one whose targets hold different files.  *)
(* graph and fs hold the package the loop is at; batch.log holds, per      *)
(* package the loop has taken, what the loop body did.                     *)
(***************************************************************************)
BatchPackage(fields, types, opt) ==
    [graph |-> [t \in Targets |->
                   [plugins |-> [i \in 1..Len(fields) |->
                       [Manifest(t, fields).plugins[i] EXCEPT !.types = types]]]],
     fs |-> [t \in Targets |-> Tree(IF t = First THEN opt ELSE {})]]

BatchPackages ==
    {BatchPackage(<<PlainField(s_MIT)>>,
                  <<ns_lv2core \o ty_Plugin, ns_lv2core \o ty_ReverbPlugin>>, {}),
     BatchPackage(<<PlainField(s_MIT)>>,
                  <<ns_lv2core \o ty_Plugin, ns_mod \o ty_DelayPlugin>>, {}),
     BatchPackage(<<Field(NoneStr, NoneStr, s_MIT, <<"1">>, <<"2">>)>>,
                  <<ns_lv2core \o ty_Plugin, ns_lv2core \o ty_ReverbPlugin>>, {}),
     BatchPackage(<<>>, <<>>, {}),
     BatchPackage(<<PlainField(s_MIT)>>,
                  <<ns_lv2core \o ty_Plugin, ns_lv2core \o ty_ReverbPlugin>>,
                  {<<s_notes_txt>>})}

\* one turn of the loop "for plugin_name, targets in plugins_map.items()": the
\* body runs on the package the loop is at; a continue or the end of the
\* body takes the next package, an exception the body does not catch leaves
\* prepare_plugins_files
PrepareNext ==
    /\ batch.status = "running"
    /\ \E r \in {prepare_package(PS_TAGS_DEFAULT)}, i \in {Len(batch.log) + 1} :
           /\ result' = [op |-> "prepare", status |-> r.status, out |-> r.out]
           /\ PS_TAGS_DEFAULT' = r.tags
           /\ batch' = [batch EXCEPT
                           !.log = Append(@, [status |-> r.status, out |-> r.out]),
                           !.status = IF r.status = "raise" THEN "raised"
                                      ELSE IF i = Len(batch.packages) THEN "done"
                                      ELSE "running"]
           /\ IF r.status # "raise" /\ i < Len(batch.packages)
              THEN /\ graph' = batch.packages[i + 1].graph
                   /\ fs' = batch.packages[i + 1].fs
              ELSE UNCHANGED <<graph, fs>>
    /\ UNCHANGED <<push, loader, bundles, lv2, pc, steps>>

InitBatch ==
    /\ bundles = [t \in Targets |-> NewBundle]
    /\ lv2 = [t \in Targets |-> NewLv2Bundle]
    /\ pc = "idle"
    /\ steps = <<>>
    /\ PS_TAGS_DEFAULT = {s_lv2_plugin}
    /\ result = [op |-> "none"]
    /\ loader = NoLoader
    /\ push = NoPush
    /\ \E packages \in SeqsOf(BatchPackages, 1, MaxBatch) :
          /\ batch = [packages |-> packages, log |-> <<>>, status |-> "running"]
          /\ graph = packages[1].graph
          /\ fs = packages[1].fs

NextBatch == PrepareNext

SpecBatch == InitBatch /\ [][NextBatch]_vars

(***************************************************************************)
(* uploader.Patchstorage.push: one call, for one prepared folder.  The     *)
(* call is                                                                 *)
(*   status    "called", "confirm" (click.confirm waits for the operator), *)
(*             "files" (upload() or update() is uploading the artwork and  *)
(*             the files), "request" (the files are uploaded, the listing  *)
(*             is not yet sent), "done";                                   *)
(*   mode      "upload" or "update" once the branch is taken;              *)
(*   answer    what the operator answered, "none" before the prompt;       *)
(*   uploaded  what Patchstorage.get(uids) returned;                       *)
(*   requests  the HTTP requests sent so far, in order;                    *)
(*   out       what push returned or raised.                               *)
(* found is the list of listings of the server that carry the uids; every  *)
(* response may be a failure (r.ok False).                                 *)
(***************************************************************************)
s_Bob == <<"B", "o", "b">>
s_bob == <<"b", "o", "b">>
s_eve == <<"e", "v", "e">>
s_rev_1_0 == <<"1", ".", "0">>
s_rev_1_2 == <<"1", ".", "2">>

\* Patchstorage.get found no listing
NoListing == [none |-> TRUE]

Listing(id, slug, revision) == [id |-> id, author_slug |-> slug, revision |-> revision]

\* Patchstorage.get(uids=...), given the r.ok of the response
Patchstorage_get(authenticated, found, ok) ==
    IF ~authenticated
    THEN Raise("PatchstorageException", "Not authenticated", <<>>)
    ELSE IF ~ok
    THEN Raise("PatchstorageException", "Failed to get plugin with uids", <<>>)
    ELSE IF Len(found) > 1
    THEN Raise("PatchstorageException", "Multiple plugins found with provided uids", <<>>)
    ELSE IF Len(found) = 1 THEN Ok(found[1])
    ELSE Ok(NoListing)

\* a push that re-uploads under force before it looks at the author
push_branch_force_first(uploaded, username, auto, force, revision) ==
    IF uploaded = NoListing
    THEN IF auto THEN "upload" ELSE "confirm_upload"
    ELSE IF force THEN "update"
    ELSE IF Lower(uploaded.author_slug) # Lower(username) THEN "skip"
    ELSE IF auto
    THEN IF uploaded.revision = revision THEN "up_to_date" ELSE "update"
    ELSE "confirm_update"

\* a push that publishes what it would have asked the operator about
push_branch_no_prompt(uploaded, username, auto, force, revision) ==
    IF uploaded = NoListing THEN "upload"
    ELSE IF Lower(uploaded.author_slug) # Lower(username) THEN "skip"
    ELSE IF force THEN "update"
    ELSE IF auto /\ uploaded.revision = revision THEN "up_to_date"
    ELSE "update"

\* the branch push takes once it has the listing:
\* "upload", "update", "confirm_upload", "confirm_update" (the prompt decides),
\* "skip" (uploaded by another user), "up_to_date"
push_branch(uploaded, username, auto, force, revision) ==
    IF uploaded = NoListing
    THEN IF auto THEN "upload" ELSE "confirm_upload"
    ELSE IF Lower(uploaded.author_slug) # Lower(username) THEN "skip"
    ELSE IF force THEN "update"
    ELSE IF auto
    THEN IF uploaded.revision = revision THEN "up_to_date" ELSE "update"
    ELSE "confirm_update"

\* the call has returned or raised
PushDone(p, out) == [p EXCEPT !.status = "done", !.out = out]

\* push up to the prompt, the first upload or its return, given the r.ok of
\* the response to Patchstorage.get
push_get(p, ok) ==
    LET got == Patchstorage_get(p.authenticated, p.found, ok)
        sent == IF p.authenticated
                THEN [p EXCEPT !.requests = Append(@, [kind |-> "GET", ok |-> ok])]
                ELSE p
        branch == push_branch(got.val, p.username, p.auto, p.force, p.data.revision)
    IN  IF Len(p.data.uids) = 0
        THEN PushDone(p, Raise("PatchstorageFieldMissing", "Missing/bad uids field",
                               <<p.folder>>))
        ELSE IF ~got.ok THEN PushDone(sent, got)
        ELSE IF branch \in {"skip", "up_to_date"}
        THEN PushDone([sent EXCEPT !.uploaded = got.val], Ok(NoneStr))
        ELSE [sent EXCEPT !.uploaded = got.val,
                          !.mode = IF branch \in {"upload", "confirm_upload"}
                                   THEN "upload" ELSE "update",
                          !.status = IF branch \in {"upload", "update"}
                                     THEN "files" ELSE "confirm"]

\* Patchstorage.upload_file calls of upload() / update() made so far
FilesSent(p) == Len(SelectSeq(p.requests, LAMBDA r : r.kind = "file"))

PushGet ==
    /\ push.status = "called"
    /\ \E ok \in BOOLEAN : push' = push_get(push, ok)
    /\ UNCHANGED <<batch, loader, fs, graph, bundles, lv2, pc, steps,
                   PS_TAGS_DEFAULT, result>>

\* the operator answers click.confirm
PushConfirm ==
    /\ push.status = "confirm"
    /\ \E yes \in BOOLEAN :
          push' = IF yes THEN [push EXCEPT !.answer = "yes", !.status = "files"]
                  ELSE PushDone([push EXCEPT !.answer = "no"], Ok(NoneStr))
    /\ UNCHANGED <<batch, loader, fs, graph, bundles, lv2, pc, steps,
                   PS_TAGS_DEFAULT, result>>

\* one Patchstorage.upload_file of upload() or update(): the artwork, then
\* the files of data['files']
PushUploadFile ==
    /\ push.status = "files"
    /\ \E ok \in BOOLEAN :
          LET sent == [push EXCEPT !.requests =
                          Append(@, [kind |-> "file", ok |-> ok])]
          IN  push' = IF ~ok
                      THEN PushDone(sent, Raise("PatchstorageException",
                                                "Failed to upload file", <<>>))
                      ELSE IF FilesSent(sent) = 1 + push.data.files
                      THEN [sent EXCEPT !.status = "request"]
                      ELSE sent
    /\ UNCHANGED <<batch, loader, fs, graph, bundles, lv2, pc, steps,
                   PS_TAGS_DEFAULT, result>>

\* requests.post(.../patches) of upload(), requests.put(.../patches/id) of
\* update()
PushRequest ==
    /\ push.status = "request"
    /\ \E ok \in BOOLEAN :
          LET sent == [push EXCEPT !.requests =
                          Append(@, [kind |-> IF push.mode = "upload" THEN "POST"
                                              ELSE "PUT",
                                     ok |-> ok])]
          IN  push' = PushDone(sent,
                               IF ok THEN Ok(<<"Published">>)
                               ELSE Raise("PatchstorageException",
                                          IF push.mode = "upload"
                                          THEN "Failed to upload"
                                          ELSE "Failed to update", <<push.folder>>))
    /\ UNCHANGED <<batch, loader, fs, graph, bundles, lv2, pc, steps,
                   PS_TAGS_DEFAULT, result>>

(***************************************************************************)
(* SpecPush: the user 'Bob' pushes one folder; the server holds no listing *)
(* with the uids, one of the user (the slug in another letter case, the    *)
(* same or an older revision), one of another user, or two listings.       *)
(***************************************************************************)
ServerListings ==
    {<<>>,
     <<Listing(7, s_bob, s_rev_1_2)>>,
     <<Listing(7, s_bob, s_rev_1_0)>>,
     <<Listing(7, s_eve, s_rev_1_0)>>,
     <<Listing(7, s_eve, s_rev_1_2)>>,
     <<Listing(7, s_bob, s_rev_1_0), Listing(8, s_eve, s_rev_1_0)>>}

NewPush(found, auto, force, authenticated, uids) ==
    [status |-> "called", username |-> s_Bob, folder |-> s_pkg,
     auto |-> auto, force |-> force, authenticated |-> authenticated,
     data |-> [uids |-> uids, revision |-> s_rev_1_2, files |-> NumTargets],
     found |-> found, uploaded |-> NoListing, mode |-> "none",
     answer |-> "none", requests |-> <<>>, out |-> Ok(NoneStr)]

InitPush ==
    /\ bundles = [t \in Targets |-> NewBundle]
    /\ lv2 = [t \in Targets |-> NewLv2Bundle]
    /\ pc = "idle"
    /\ steps = <<>>
    /\ PS_TAGS_DEFAULT = {s_lv2_plugin}
    /\ result = [op |-> "none"]
    /\ loader = NoLoader
    /\ batch = NoBatch
    /\ fs = [t \in Targets |-> Tree({})]
    /\ graph = [t \in Targets |-> Manifest(t, <<PlainField(s_MIT)>>)]
    /\ \E found \in ServerListings, auto, force, authenticated \in BOOLEAN,
          uids \in {<<>>, <<Uris[1]>>} :
          push = NewPush(found, auto, force, authenticated, uids)

NextPush == PushGet \/ PushConfirm \/ PushUploadFile \/ PushRequest

SpecPush == InitPush /\ [][NextPush]_vars

(***************************************************************************)
(* Properties.                                                             *)
(***************************************************************************)
Idle == pc \in {"idle", "valid", "invalid"}

LastStep == steps[Len(steps)]

\* the data the targets' bundles hold differ in a field other than the
\* screenshot of a plugin
DataDiffers ==
    \E a, b \in Targets :
        /\ bundles[a].data # NoData /\ bundles[b].data # NoData
        /\ WithoutScreenshot(bundles[a].data) # WithoutScreenshot(bundles[b].data)

\* the data lv2.Bundle.parse returns for the targets differ in such a field
Lv2DataDiffers ==
    \E a, b \in Targets :
        WithoutScreenshot(Lv2Bundle_parse(NewLv2Bundle, a).bundle.data)
            # WithoutScreenshot(Lv2Bundle_parse(NewLv2Bundle, b).bundle.data)

\* C1: the data check fails whenever two targets' parsed data differ in a
\* field other than the plugins' screenshot: validate_targets_data raises,
\* and prepare_plugins_files (is_same_plugins_data) prepares no record.
C1_DataCheckFails ==
    /\ (steps # <<>> /\ LastStep.step = "data" /\ DataDiffers) => ~LastStep.ok
    /\ (result.op = "prepare" /\ result.status = "prepared") => ~Lv2DataDiffers

\* target b holds every file and directory of target a and one file more
ExtraFiles(a, b) ==
    {x \in fs[b].files : /\ x \notin fs[a].files
                         /\ fs[b].files \ {x} = fs[a].files
                         /\ fs[b].dirs = fs[a].dirs}

\* C2: when the trees of the two targets are identical except that one holds
\* one extra file, validate_targets_files raises BundleBadContents and the
\* difference it reports is exactly the name of the extra file.
C2_ExtraFileReported ==
    \A a, b \in {1, 2} : \A x \in ExtraFiles(a, b) :
        (Len(steps) = 1 /\ LastStep.step = "files")
            => /\ ~LastStep.ok
               /\ result.op = "validate"
               /\ result.out.exc = "BundleBadContents"
               /\ result.out.args[3] = {PathName(x)}

\* the calls validate() makes when none raises
ValidateOrder == <<"files">> \o [t \in Targets |-> "parse"] \o <<"data">>

\* C3: validate() runs the file-set check, then the parse of every target in
\* order, then the data check; a step runs only if every step before it
\* returned, and validate() has raised exactly when its last step raised.
C3_ValidateInOrder ==
    /\ Len(steps) <= Len(ValidateOrder)
    /\ \A i \in 1..Len(steps) :
          /\ steps[i].step = ValidateOrder[i]
          /\ steps[i].step = "parse" => steps[i].t = i - 1
          /\ i < Len(steps) => steps[i].ok
    /\ pc = "invalid" <=> (steps # <<>> /\ ~LastStep.ok)
    /\ pc = "valid" <=> (Len(steps) = Len(ValidateOrder) /\ LastStep.ok)
    /\ pc = "parsed" <=> (Len(steps) = NumTargets + 1 /\ LastStep.ok)
    /\ \A t \in Targets :
          bundles[t].parses > 0 => \E i \in 1..Len(steps) : steps[i].step = "files"

\* validate() was aborted by the parse of a target after the first
C3_Witness ==
    /\ pc = "invalid"
    /\ Len(steps) > 2
    /\ LastStep.step = "parse"
    /\ bundles[1].data # NoData

\* the licenses the plugins of the package declare
Declared(t) ==
    {graph[t].plugins[i].license : i \in 1..Len(graph[t].plugins)} \ {NoneStr}

\* two plugins declare licenses that differ beyond letter case
LicenseConflict(t) == \E a, b \in Declared(t) : Lower(a) # Lower(b)

\* on a parsed package in which two plugins declare licenses that differ
\* beyond letter case, get_license_id raises the license mismatch and returns
\* no ID
LicenseConflictRaises ==
    (/\ result.op = "get_license_id"
     /\ bundles[First].data # NoData
     /\ LicenseConflict(First))
        => /\ ~result.out.ok
           /\ result.out.exc = "BundleBadContents"
           /\ result.out.msg = "License mismatch"

\* C4: on a parsed package in which two plugins declare licenses that differ
\* beyond letter case, get_license_id raises the BundleBadContents license
\* mismatch and its message names both conflicting values: two declared
\* licenses that differ beyond letter case; it returns no ID.
C4_LicenseMismatch ==
    (/\ result.op = "get_license_id"
     /\ bundles[First].data # NoData
     /\ LicenseConflict(First))
        => /\ ~result.out.ok
           /\ result.out.exc = "BundleBadContents"
           /\ result.out.msg = "License mismatch"
           /\ \E a, b \in Declared(First) :
                 /\ Lower(a) # Lower(b)
                 /\ result.out.args = <<package_name(First), a, b>>

\* data that can be read and holds an empty list of plugins
EmptyData(data) == data # NoData /\ Len(data.plugins) = 0

\* C5: on a package whose graph holds no subject of type Plugin, parse()
\* raises the BundleBadContents "No plugin found", and the bundle never holds
\* data with an empty list of plugins (bundles.Bundle and lv2.Bundle).
C5_NoPluginFound ==
    Len(graph[First].plugins) = 0
        => /\ result.op \in {"parse", "lv2.parse"}
                => /\ ~result.out.ok
                   /\ result.out.exc = "BundleBadContents"
                   /\ result.out.msg = "No plugin found in folder"
           /\ ~EmptyData(bundles[First].data)
           /\ ~EmptyData(lv2[First].data)

\* C6: parse() is idempotent.  Plugin.parse() computes the data of a Plugin
\* object once and returns the cached data afterwards, leaving the object as
\* it is; Bundle.parse() on a parsed bundle returns data equal to the data the
\* parse before it returned.
C6_ParseIdempotent ==
    /\ [](/\ \A i \in 1..Len(bundles[First].plugins) :
                bundles[First].plugins[i].computed = 1
          /\ result.op = "plugin.parse"
                => result.out = Ok(bundles[First].plugins[result.i].data))
    /\ [][/\ bundles'[First].parses = bundles[First].parses => bundles' = bundles
          /\ (/\ bundles'[First].parses = bundles[First].parses + 1
              /\ bundles[First].data # NoData)
                => /\ result'.op = "parse"
                   /\ result'.out = Ok(bundles[First].data)]_vars

\* the second parse() of a bundle of several plugins has returned
C6_Witness ==
    /\ bundles[First].parses = 2
    /\ result.op = "parse"
    /\ result.out.ok
    /\ Len(result.out.val.plugins) > 1
    /\ Len(bundles[First].plugins) = 2 * Len(result.out.val.plugins)

\* the number a literal of the graph stands for (0 when the triple is absent)
Num(literal) ==
    IF literal = NoneStr THEN 0
    ELSE CHOOSE n \in 0..(MaxVer + 1) : FormatInt(n) = literal

\* the (minor, micro) pair of plugin i of the graph of target t
VersionPair(t, i) ==
    <<Num(graph[t].plugins[i].minor), Num(graph[t].plugins[i].micro)>>

Stability(m, n) ==
    IF m = 0 THEN "experimental"
    ELSE IF m % 2 = 1 \/ n % 2 = 1 THEN "testing"
    ELSE "stable"

\* C7: a plugin of version m.n is parsed with stability "experimental" iff
\* m = 0, otherwise "testing" iff m is odd or n is odd, otherwise "stable".
C7_Stability ==
    bundles[First].data # NoData
        => \A i \in 1..Len(bundles[First].data.plugins) :
              LET v == VersionPair(First, i)
                  plugin == bundles[First].data.plugins[i]
              IN  /\ plugin.version = FormatInt(v[1]) \o s_dot \o FormatInt(v[2])
                  /\ plugin.stability = Stability(v[1], v[2])

\* a plugin of an even minor of two digits and an odd micro of two digits
C7_Witness ==
    /\ bundles[First].data # NoData
    /\ VersionPair(First, 1) = <<10, 11>>
    /\ bundles[First].data.plugins[1].stability = "testing"

\* pair v is below pair w, the components compared as integers
PairLess(v, w) == v[1] < w[1] \/ (v[1] = w[1] /\ v[2] < w[2])

\* the version of the graph of target t with the greatest (minor, micro) pair
MaxVersion(t) ==
    LET n == Len(graph[t].plugins)
        top == CHOOSE i \in 1..n :
                  \A j \in 1..n : ~PairLess(VersionPair(t, i), VersionPair(t, j))
        v == VersionPair(t, top)
    IN  FormatInt(v[1]) \o s_dot \o FormatInt(v[2])

\* C8: the revision of a package is the version of the plugin whose
\* (minor, micro) pair is the numeric maximum over the plugins; for
\* get_revision and for the record of get_data_for_patchstorage.
C8_RevisionNumericMax ==
    /\ (result.op = "get_revision" /\ result.out.ok)
          => result.out.val = MaxVersion(First)
    /\ (result.op = "prepare" /\ result.status = "prepared")
          => result.out.val.revision = MaxVersion(First)

\* the state of the package of target t: 150 if any plugin is experimental
StateOf(t) ==
    IF \E i \in 1..Len(graph[t].plugins) : VersionPair(t, i)[1] = 0
    THEN 150 ELSE 151

\* C9: the state of a package is 150 if any of its plugins is experimental,
\* at whatever position, and 151 otherwise; for get_state_id and for the
\* record of get_data_for_patchstorage.
C9_StateAnyExperimental ==
    /\ (result.op = "get_state_id" /\ result.out.ok)
          => result.out.val = StateOf(First)
    /\ (result.op = "prepare" /\ result.status = "prepared")
          => result.out.val.state = StateOf(First)

\* the title of the only plugin of the package: its label, else its name
\* (a label of blanks only is no label)
OnlyTitle(t) ==
    LET plugin == graph[t].plugins[1]
    IN  IF plugin.label # NoneStr /\ Strip(plugin.label) # <<>>
        THEN Strip(plugin.label)
        ELSE Strip(plugin.name)

\* C10: the title of a package of one plugin is the label of the plugin if it
\* has one, else its name, with " Plugin" appended iff that is shorter than 5
\* characters; the title of a package of several plugins is
\* "<package name> Bundle".
C10_Title ==
    (/\ result.op = "get_title"
     /\ bundles[First].data # NoData)
        => IF Len(graph[First].plugins) = 1
           THEN result.out = Ok(IF Len(OnlyTitle(First)) < 5
                                THEN OnlyTitle(First) \o s_Plugin
                                ELSE OnlyTitle(First))
           ELSE result.out = Ok(package_name(First) \o s_Bundle)

\* get_title on a bundle that was parsed once
TitleAfterOneParse == bundles[First].parses = 1 => C10_Title

\* the tags of a list of declared types: the tags the map gives for the types
\* of the lv2core and mod namespaces
TagsOf(types) ==
    {tag \in UNION {SeqToSet(CATEGORY_MAP[key]) : key \in DOMAIN CATEGORY_MAP} :
        \E k \in 1..Len(types), key \in DOMAIN CATEGORY_MAP :
            /\ types[k] \in {ns_lv2core \o key, ns_mod \o key}
            /\ tag \in SeqToSet(CATEGORY_MAP[key])}

\* the alias is listed, as it is written, by an entry of the table
Listed(table, alias) ==
    \E e \in 1..Len(table) : alias \in SeqToSet(table[e].values)

\* number id is the ID of an entry of the table that lists an alias equal to
\* the given one under Key
IdLists(table, id, Key(_), alias) ==
    \E e \in 1..Len(table) :
        /\ table[e].id = FormatInt(id)
        /\ \E v \in 1..Len(table[e].values) : Key(table[e].values[v]) = Key(alias)

\* the tags get_category_ids resolves: the overwrites, else the plugins' tags
CatsOf(t, overwrites) ==
    IF overwrites.categories # NoneStr THEN overwrites.categories
    ELSE Concat([i \in 1..Len(bundles[t].plugins) |->
                    ListOf(TagsOf(graph[t].plugins[bundles[t].plugins[i].subject].types))])

\* the license the plugins of the package declare, all the same one
OneLicense(t) == graph[t].plugins[1].license

\* get_license_id was called with a table that lists the package's license
LicenseListed ==
    /\ result.op = "get_license_id"
    /\ bundles[First].data # NoData
    /\ result.licenses_map # NoMap
    /\ Listed(result.licenses_map, OneLicense(First))

\* get_category_ids was called with a table that lists every tag to resolve
TagsListed ==
    /\ result.op = "get_category_ids"
    /\ bundles[First].data # NoData
    /\ CatsOf(First, result.overwrites) # <<>>
    /\ \A i \in 1..Len(CatsOf(First, result.overwrites)) :
          Listed(result.categories, CatsOf(First, result.overwrites)[i])

\* C12 as stated: a license that a table entry lists verbatim resolves to the
\* ID of an entry that lists that string, and so does every category tag.
C12_RoundTripVerbatim ==
    /\ LicenseListed
          => /\ result.out.ok
             /\ IdLists(result.licenses_map, result.out.val,
                        LAMBDA v : v, OneLicense(First))
    /\ TagsListed
          => /\ result.out.ok
             /\ \A i \in 1..Len(result.out.val) :
                   IdLists(result.categories, result.out.val[i],
                           LAMBDA v : v, CatsOf(First, result.overwrites)[i])

\* C12, amended: a license that a table entry lists verbatim resolves to the
\* ID of an entry that lists the license in some letter case (the last such
\* entry of the table); a category tag that an entry lists verbatim resolves
\* to the ID of an entry that lists that string.
C12_RoundTrip ==
    /\ LicenseListed
          => /\ result.out.ok
             /\ IdLists(result.licenses_map, result.out.val,
                        Lower, OneLicense(First))
    /\ TagsListed
          => /\ result.out.ok
             /\ Len(result.out.val) = Len(CatsOf(First, result.overwrites))
             /\ \A i \in 1..Len(result.out.val) :
                   IdLists(result.categories, result.out.val[i],
                           LAMBDA v : v, CatsOf(First, result.overwrites)[i])

\* a license resolved through an entry that lists it in another letter case
C12_Witness ==
    /\ LicenseListed
    /\ result.out.ok
    /\ ~IdLists(result.licenses_map, result.out.val, LAMBDA v : v, OneLicense(First))

\* the tags of two plugins resolved, one of them listed by two entries
C12_WitnessTags ==
    /\ TagsListed
    /\ result.overwrites.categories = NoneStr
    /\ result.out.ok
    /\ \E i \in 1..Len(result.out.val) : result.out.val[i] = 95

\* C11: the category of a parsed plugin is the union, without duplicates, of
\* the CATEGORY_MAP entries of the types it declares, a type the map does not
\* hold adding nothing; two plugins that declare the same set of types, in
\* whatever order, have the same category.
C11_CategoryByTypeSet ==
    bundles[First].data # NoData
        => LET types == [i \in 1..Len(graph[First].plugins) |->
                            graph[First].plugins[i].types]
               plugins == bundles[First].data.plugins
           IN  /\ \A i \in 1..Len(plugins) : plugins[i].category = TagsOf(types[i])
               /\ \A i, j \in 1..Len(plugins) :
                     SeqToSet(types[i]) = SeqToSet(types[j])
                        => plugins[i].category = plugins[j].category

\* two plugins declare the same three types in different orders, two of the
\* types share a tag
C11_Witness ==
    /\ bundles[First].data # NoData
    /\ graph[First].plugins[1].types # graph[First].plugins[2].types
    /\ SeqToSet(graph[First].plugins[1].types)
          = {ns_lv2core \o ty_Plugin, ns_lv2core \o ty_DistortionPlugin,
             ns_lv2core \o ty_WaveshaperPlugin}
    /\ SeqToSet(graph[First].plugins[2].types)
          = SeqToSet(graph[First].plugins[1].types)
    /\ bundles[First].data.plugins[2].category = {s_Distortion, s_Waveshaper}

\* every plugin of the package declares a license, the declared licenses
\* differ in letter case only, and at least two spellings occur
CaseVariantsOnly(t) ==
    /\ \A i \in 1..Len(graph[t].plugins) : graph[t].plugins[i].license # NoneStr
    /\ Cardinality(Declared(t)) > 1
    /\ \A a, b \in Declared(t) : Lower(a) = Lower(b)

\* C17: on a parsed package whose plugins declare licenses that differ in
\* letter case only ('MIT' and 'mit'), get_license_id reports no mismatch:
\* it returns the lowered license without a table, and with the table that
\* lists 'MIT' under 75 it returns 75.
C17_CaseInsensitive ==
    (/\ result.op = "get_license_id"
     /\ bundles[First].data # NoData
     /\ CaseVariantsOnly(First)
     /\ result.licenses_map # LicensesMapCase)
        => /\ result.out.ok
           /\ result.licenses_map = NoMap => result.out.val = s_mit
           /\ result.licenses_map = LicensesMap => result.out.val = 75

\* what the three checks of validate_files give on the files of target t,
\* made in the order: directory, manifest.ttl, *.so
FirstFailingCheck(t) ==
    IF ~fs[t].is_dir THEN "Invalid folder name"
    ELSE IF <<s_manifest_ttl>> \notin fs[t].files THEN "No manifest.ttl in folder"
    ELSE IF \A p \in fs[t].files \cup fs[t].dirs :
               Len(p) # 1 \/ ~EndsWith(p[1], s_so)
    THEN "No .so file in folder"
    ELSE "none"

\* the outcome is that of the three checks made in order
ChecksInOrder(out, t) ==
    IF FirstFailingCheck(t) = "none" THEN out.ok
    ELSE /\ ~out.ok
         /\ out.exc = "BundleBadContents"
         /\ out.msg = FirstFailingCheck(t)
         /\ out.args = <<package_name(t)>>

\* validate_files of bundles.py makes the three checks in order
ValidateFilesOrder ==
    result.op = "validate_files" => ChecksInOrder(result.out, First)

\* a directory with a manifest and no shared object has been rejected by
\* validate_files of bundles.py
ValidateFilesOrderWitness ==
    /\ result.op = "validate_files"
    /\ ~result.out.ok
    /\ result.out.msg = "No .so file in folder"

\* C20: validate_files, of bundles.Bundle and of lv2.Bundle, raises
\* BundleBadContents with the message of the first check that fails, in the
\* order directory, manifest.ttl, *.so, and returns only if all three hold;
\* a parse() returns data only if all three hold.
C20_ValidateFiles ==
    /\ result.op \in {"validate_files", "lv2.validate_files"}
          => ChecksInOrder(result.out, First)
    /\ (result.op \in {"parse", "lv2.parse"} /\ result.out.ok)
          => FirstFailingCheck(First) = "none"

\* the name of the only subject of target t is missing
NameMissing(t) == ~Truthy(get_field(graph[t], 1, "name"))

\* the screenshot of the subject is missing, not a local file, or not on disk
ScreenshotMissing(t) ==
    \/ graph[t].plugins[1].gui_screenshot = NoneStr
    \/ ~StartsWith(graph[t].plugins[1].gui_screenshot, s_file3)
    \/ graph[t].plugins[1].gui_screenshot # ScreenshotRef(t)

\* the data of a plugin holds None for every soft field the subject lacks
AbsentIsNull(data, t) ==
    LET s == graph[t].plugins[1]
    IN  /\ s.license = NoneStr => data.license = NoneStr
        /\ s.label = NoneStr => data.label = NoneStr
        /\ s.comment = NoneStr => data.comment = NoneStr
        /\ (s.brand = NoneStr /\ s.developer = NoneStr) => data.brand = NoneStr
        /\ s.developer = NoneStr => data.author = NoneStr

\* the outcome of parsing the only subject of target t: PluginFieldMissing
\* for a missing name, else for a missing screenshot, else data
RequiredFields(out, data, t) ==
    IF NameMissing(t)
    THEN out = Raise("PluginFieldMissing", "name", <<package_name(t)>>)
    ELSE IF ScreenshotMissing(t)
    THEN out = Raise("PluginFieldMissing", "screenshot", <<package_name(t)>>)
    ELSE out.ok /\ AbsentIsNull(data, t)

\* Plugin.parse of bundles.py fails exactly for a missing name or screenshot
PluginRequiredFields ==
    /\ result.op = "plugin.parse"
          => RequiredFields(result.out, result.out.val, First)
    /\ result.op = "parse"
          => RequiredFields(result.out, result.out.val.plugins[1], First)

\* a subject without license, label, comment, brand and author has parsed
PluginRequiredFieldsWitness ==
    /\ result.op = "plugin.parse"
    /\ result.out.ok
    /\ graph[First].plugins[1].license = NoneStr
    /\ graph[First].plugins[1].developer = NoneStr
    /\ bundles[First].plugins[1].computed = 1

\* C18: parsing a plugin, with bundles.Plugin or with lv2.Plugin, fails with
\* PluginFieldMissing carrying the field name and the package name when the
\* name is missing or the screenshot is missing or not on disk, and in no
\* other case: a subject without license, comment, author, brand or label
\* parses and its data holds None for that field.
C18_RequiredFields ==
    /\ PluginRequiredFields
    /\ result.op = "lv2.parse"
          => RequiredFields(result.out, result.out.val.plugins[1], First)

\* the calls of graph.parse of the loader, in order: the files read
Parses == SelectSeq(loader.log, LAMBDA e : e.ev = "parse")

\* graph.parse has run once per key of self.parsed_files
ParsedOncePerKey == Len(Parses) = Cardinality(loader.parsed_files)

\* a reference that names a.ttl through res/.. is among those of manifest.ttl
AliasNamed ==
    \E i \in 1..Len(loader.disk[<<s_manifest_ttl>>].see_also) :
        loader.disk[<<s_manifest_ttl>>].see_also[i]
            = FileRef(First, <<s_res, <<".", ".">>, s_a_ttl>>)

\* C13: a bundles.Bundle hands no file to graph.parse twice, however many
\* references name the file and however often parse() is called: a
\* reference to a file that has been parsed is skipped.
C13_ParsedOnce ==
    loader.lib = "bundles"
        => \A i, j \in 1..Len(Parses) : Parses[i].ref = Parses[j].ref => i = j

\* the first parse() of a bundles.Bundle on a directory that validate_files
\* accepts has returned or raised
FirstLoadDone ==
    /\ loader.lib = "bundles"
    /\ loader.status = "done"
    /\ loader.runs = 1
    /\ validate_files(First).ok

\* the entry manifest has invalid syntax
BadManifest == ~loader.disk[<<s_manifest_ttl>>].ok

\* a file other than the entry manifest has been handed to graph.parse and
\* has invalid syntax
BadIncluded ==
    \E i \in 2..Len(Parses) :
        ~Content(loader, Rel(First, PathOf(Parses[i].ref))).ok

\* what the code does on invalid syntax: the entry manifest makes parse()
\* raise BadSyntax itself; an included file is ignored with a warning unless
\* the reference to it ends with 'manifest.ttl', which raises
\* PluginBadContents
BadSyntaxAsCoded ==
    FirstLoadDone
        => IF BadManifest
           THEN ~loader.out.ok /\ loader.out.exc = "BadSyntax"
           ELSE IF \E i \in 2..Len(Parses) :
                      /\ ~Content(loader, Rel(First, PathOf(Parses[i].ref))).ok
                      /\ EndsWith(Parses[i].ref, s_manifest_ttl)
           THEN ~loader.out.ok /\ loader.out.exc = "PluginBadContents"
           ELSE loader.out.ok

\* C14: the first parse() of a bundles.Bundle fails with PluginBadContents
\* when the entry manifest has invalid syntax; when the entry manifest is
\* valid, included files of invalid syntax are ignored with a warning and
\* parse() returns the data.
C14_BadSyntax ==
    FirstLoadDone
        => IF BadManifest
           THEN ~loader.out.ok /\ loader.out.exc = "PluginBadContents"
           ELSE /\ loader.out.ok
                /\ BadIncluded
                      => \E e \in SeqToSet(loader.log) : e.ev = "Bad syntax (ignored)"

\* every ttl file of the bundle has valid syntax
AllValid == \A f \in DOMAIN loader.disk : loader.disk[f].ok

\* the loader has printed the warning ev about the reference ref
Warned(ev, ref) == \E e \in SeqToSet(loader.log) : e.ev = ev /\ e.ref = ref

\* C15: the first parse() of a bundle whose ttl files are valid returns the
\* data whatever its manifest refers to: a remote reference is reported as
\* a bad path and a reference to a missing file as not found (warnings of
\* bundles.Bundle), and both are skipped.  A missing entry manifest makes
\* parse() raise BundleBadContents 'No manifest.ttl in folder'.
C15_MissingReferences ==
    (loader.status = "done" /\ loader.runs = 1)
        => IF <<s_manifest_ttl>> \notin fs[First].files
           THEN loader.out = Raise("BundleBadContents", "No manifest.ttl in folder",
                                   <<package_name(First)>>)
           ELSE AllValid
                   => /\ loader.out.ok
                      /\ loader.lib = "bundles"
                            => \A ref \in SeqToSet(loader.disk[<<s_manifest_ttl>>].see_also) :
                                  /\ ref = s_src_url => Warned("Bad path", ref)
                                  /\ ref = FileRef(First, <<s_x_ttl>>)
                                        => Warned("File not found", PathStr(parse_path(ref)))

\* a manifest that refers to a remote file and to a missing file has been
\* loaded and parse() has returned the data
C15_Witness ==
    /\ loader.status = "done"
    /\ loader.runs = 1
    /\ loader.lib = "bundles"
    /\ loader.out.ok
    /\ Warned("Bad path", s_src_url)
    /\ Warned("File not found", PathStr(parse_path(FileRef(First, <<s_x_ttl>>))))

\* the innermost call of _parse_ttl is about to run its body
AtCall ==
    /\ loader.status = "loading"
    /\ loader.stack[Len(loader.stack)].pc = "call"

\* the body of a call of _parse_ttl either returns (or raises) at once or
\* adds a key to self.parsed_files
CallReturnsOrMarks ==
    [][AtCall => \/ Len(loader'.stack) < Len(loader.stack)
                 \/ /\ loader.parsed_files \subseteq loader'.parsed_files
                    /\ loader'.parsed_files # loader.parsed_files]_vars

\* C19: the loading of a bundle ends, whatever its files include: every
\* call of _parse_ttl returns at once or marks a file that was not yet
\* parsed, and a parse() that has entered _parse_ttl gets out of it, with
\* the files loaded or with an exception.
C19_LoadTerminates ==
    /\ CallReturnsOrMarks
    /\ (loader.status = "loading") ~> (loader.status \in {"loaded", "done"})

\* parse() has returned the data of a bundle whose manifest includes itself
\* and a.ttl, a.ttl and res/manifest.ttl including each other
C19_Witness ==
    /\ loader.status = "done"
    /\ loader.runs = 1
    /\ loader.out.ok
    /\ loader.disk[<<s_manifest_ttl>>].see_also
          = <<FileRef(First, <<s_manifest_ttl>>), FileRef(First, <<s_a_ttl>>)>>
    /\ loader.disk[<<s_a_ttl>>].see_also = <<FileRef(First, <<s_res, s_manifest_ttl>>)>>
    /\ Len(Parses) >= 3

\* no parse() of the bundle of target t has returned: none was called, or
\* the package is one on which parse() raises
NeverParsed(t) == bundles[t].parses = 0 \/ ~Bundle_parse(NewBundle, t).out.ok

DerivedOps ==
    {"data", "get_uids", "get_title", "get_license_id", "get_state_id",
     "get_revision", "get_category_ids", "get_tags", "get_comment"}

\* C16: on a bundle on which no parse() has returned, be it that none was
\* called or that every call raised, each operation that reads the parsed
\* data raises BundleBadContents 'not parsed', get_patchstorage_data raises
\* it for the first bundle, and validate_targets_data raises it when any of
\* the bundles is in that state.
C16_NotParsedFails ==
    /\ (result.op \in DerivedOps \cup {"get_patchstorage_data"} /\ NeverParsed(First))
          => result.out = NotParsed(First)
    /\ (result.op = "validate_targets_data" /\ \E t \in Targets : NeverParsed(t))
          => /\ ~result.out.ok
             /\ result.out.exc = "BundleBadContents"
             /\ result.out.msg = NotParsed(First).msg

\* get_tags has raised on a bundle whose only parse() raised
C16_Witness ==
    /\ result.op = "get_tags"
    /\ bundles[First].parses > 0
    /\ NeverParsed(First)
    /\ ~result.out.ok


\* the set of tags get_category_ids has to resolve: the override list when one
\* is configured, else the union of the tags of the plugins of the manifest
PackageTags(t, overwrites) ==
    IF overwrites.categories # NoneStr THEN SeqToSet(overwrites.categories)
    ELSE UNION {TagsOf(graph[t].plugins[i].types) : i \in 1..Len(graph[t].plugins)}

\* C21: on a parsed package get_category_ids fails with BundleBadContents when
\* there is no tag and when a tag has no ID in the category table; otherwise
\* it returns the IDs of the union of the plugins' tags (or of the override
\* list), one ID per tag, so a tag several plugins declare gives its ID once.
C21_CategoryIds ==
    (/\ result.op = "get_category_ids"
     /\ bundles[First].data # NoData
     /\ bundles[First].parses = 1)
        => LET tags == PackageTags(First, result.overwrites)
               out == result.out
           IN  IF tags = {} \/ \E tag \in tags : ~Listed(result.categories, tag)
               THEN ~out.ok /\ out.exc = "BundleBadContents"
               ELSE /\ out.ok
                    /\ Len(out.val) = Cardinality(tags)
                    /\ SeqToSet(out.val)
                          = {ParseInt(CategoryInverted(result.categories, tag)) :
                                tag \in tags}

\* the relative, recursive names of the files and directories of a target
RelativeNames(t) == fs[t].files \cup fs[t].dirs

\* C22: when validate_targets_files has returned, every pair of targets,
\* adjacent or not, holds the same set of relative recursive file names; two
\* targets that hold a file of one base name under different subdirectories
\* do not pass.
C22_PairwiseRelativeNames ==
    (Len(steps) >= 1 /\ steps[1].step = "files" /\ steps[1].ok)
        => \A a, b \in Targets : RelativeNames(a) = RelativeNames(b)

\* the values a nested field of subject i may take: none, or the value on a
\* node linked from subject i
OwnNodes(t, i, predicates) ==
    {NoneStr} \cup {graph[t].plugins[i][p] : p \in predicates}

\* C23: in a parsed package of several plugins, the author of a plugin's
\* record is the name on the developer or maintainer node linked from that
\* plugin's subject (or none), its brand is a value of the subject or of one
\* of its own nodes, and its screenshot is the file its own GUI node names.
C23_NestedFromOwnSubject ==
    bundles[First].data # NoData
        => \A i \in 1..Len(bundles[First].data.plugins) :
              LET record == bundles[First].data.plugins[i]
              IN  /\ record.author \in OwnNodes(First, i, {"developer", "maintainer"})
                  /\ record.brand \in OwnNodes(First, i, {"brand", "developer",
                                                         "maintainer", "gui_brand"})
                  /\ record.screenshot
                        = PathStr(parse_path(graph[First].plugins[i].gui_screenshot))

\* the loop body ended on a content error that the parsing of the package
\* raised
ContentError(entry) ==
    /\ ~entry.out.ok
    /\ entry.out.exc \in {"PluginFieldMissing", "BundleBadContents",
                          "PluginBadManifest"}

\* C24: in a run of prepare_plugins_files, a package whose parsing raises a
\* content error (a missing plugin field, 'No plugin found', a bad manifest)
\* is skipped, and the loop goes on to every package after it.
C24_ContentErrorSkipsOnePackage ==
    \A i \in 1..Len(batch.log) :
        ContentError(batch.log[i])
            => /\ batch.log[i].status = "skip"
               /\ i < Len(batch.packages)
                     => Len(batch.log) > i \/ batch.status = "running"

\* the slug-cased category tags of the plugins of package i of the run
OwnTags(i) ==
    LET plugins == batch.packages[i].graph[NumTargets].plugins
    IN  {TagOf(cat) : cat \in UNION {TagsOf(plugins[k].types) : k \in 1..Len(plugins)}}

\* C25: after any sequence of packages of one run, the tag list of the
\* record of a prepared package holds only the default tag 'lv2-plugin' and
\* the tags of the categories of the package's own plugins, and
\* PS_TAGS_DEFAULT is still ['lv2-plugin'].
C25_NoSharedTags ==
    batch.status # "idle"
        => /\ PS_TAGS_DEFAULT = {s_lv2_plugin}
           /\ \A i \in 1..Len(batch.log) :
                 batch.log[i].status = "prepared"
                    => batch.log[i].out.val.tags \subseteq {s_lv2_plugin} \cup OwnTags(i)

\* C26: whenever the bundle counts as parsed, after however many parse()
\* calls, its list of Plugin objects has one entry per plugin subject of the
\* graph, in the order of the subjects, and is as long as data['plugins'], so
\* get_plugin_count is the number of plugins of the package.
C26_OnePluginPerSubject ==
    bundles[First].data # NoData
        => /\ Len(bundles[First].plugins) = Len(graph[First].plugins)
           /\ Len(bundles[First].plugins) = Len(bundles[First].data.plugins)
           /\ \A i \in 1..Len(bundles[First].plugins) :
                 bundles[First].plugins[i].subject = i
           /\ get_plugin_count(bundles[First]) = Len(graph[First].plugins)

\* the lists that hold the elements of list l in another order
Reorderings(l) ==
    {[i \in 1..Len(l) |-> l[p[i]]] :
        p \in {q \in [1..Len(l) -> 1..Len(l)] :
                  \A i, j \in 1..Len(l) : q[i] = q[j] => i = j}}

\* the outcomes agree: the same ID, or a failure on both sides
SameOutcome(a, b) == a.ok = b.ok /\ (a.ok => a.val = b.val)

\* C27: on a package parsed once, the outcome of get_license_id is the one it
\* would have with the same plugins discovered in any other order: the same
\* ID, or a failure in every order.
C27_LicenseOrderIndependent ==
    (/\ result.op = "get_license_id"
     /\ bundles[First].data # NoData
     /\ bundles[First].parses = 1)
        => \A plugins \in Reorderings(bundles[First].plugins) :
              SameOutcome(result.out,
                          get_license_id([bundles[First] EXCEPT !.plugins = plugins],
                                         First, result.licenses_map, result.overwrites))

\* the server holds exactly one listing with the uids, and its author slug
\* is not the pushing username in any letter case
OtherUsersListing ==
    /\ Len(push.found) = 1
    /\ Lower(push.found[1].author_slug) # Lower(push.username)

\* requests that upload a file, create a listing or update one
Publishing ==
    SelectSeq(push.requests, LAMBDA r : r.kind \in {"file", "POST", "PUT"})

\* C28: when the listing that carries the uids belongs to another user, push
\* sends no file upload and no update, whatever auto and force are: once it
\* has the listing, it returns without more requests.
C28_NeverUpdatesOthersListing ==
    (push.status # "idle" /\ OtherUsersListing)
        => /\ Publishing = <<>>
           /\ push.status \in {"called", "done"}
           /\ (push.status = "done" /\ push.uploaded # NoListing)
                 => push.out = Ok(NoneStr)

\* push has skipped another user's listing although auto and force are set
C28_Witness ==
    /\ OtherUsersListing
    /\ push.auto /\ push.force
    /\ push.status = "done"
    /\ push.uploaded = push.found[1]
    /\ push.out = Ok(NoneStr)

\* C29: a file upload, a create request or an update request is sent only
\* if auto is set, or force is set and the listing exists under the pushing
\* user, or the operator answered yes to the prompt.
C29_PublishesOnlyWhenAllowed ==
    (push.status # "idle" /\ Publishing # <<>>)
        => \/ push.auto
           \/ /\ push.force
              /\ push.uploaded # NoListing
              /\ Lower(push.uploaded.author_slug) = Lower(push.username)
           \/ push.answer = "yes"

\* without auto and force, a listing was created after the operator's yes
C29_Witness ==
    /\ ~push.auto /\ ~push.force
    /\ push.answer = "yes"
    /\ push.status = "done"
    /\ push.out.ok
    /\ \E i \in 1..Len(push.requests) : push.requests[i].kind = "POST"

====
